---- MODULE Spec2Model ----
(***************************************************************************)
(* Verification model of the TikTok scraper (src/backend/scraper.py,       *)
(* src/scraper.py, src/backend/database.py, src/backend/api.py,            *)
(* src/backend/run_scraper_job.py, src/backend/mistral_chat.py,            *)
(* src/app.py).                                                            *)
(*                                                                         *)
(*  DetailsSpec : TikTokScraper.scrape_video_details, one step per         *)
(*                suspension point group (retry loop iteration, primary    *)
(*                JSON, secondary JSON, DOM fallback, comment harvest).    *)
(*  Spec        : scrape_and_save, one step per candidate URL.             *)
(*  SearchSpec  : TikTokScraper.search_videos (both files).                *)
(*  SessionSpec : TikTokScraper.start / stop around one run.               *)
(*  ApiSpec     : a job over several keywords (scrape_job, main).          *)
(*  FieldSpec   : one page taken to its stored description and counters.   *)
(*  ConcSpec    : two scrape jobs at once over one videos table.           *)
(*  DismissSpec : one interstitial-dismissal sequence.                     *)
(*  ChatSpec    : the service process: database connection with retry,     *)
(*                then the chat sessions of MistralChatService.            *)
(*                                                                         *)
(* Python strings are sequences of tokens, so that split() is computed;    *)
(* a dict is a record plus the set `keys` of the keys it holds.            *)
(***************************************************************************)
EXTENDS Integers, Sequences, FiniteSets, TLC

VARIABLES
    \* ---- scrape_video_details
    pc,            \* control point inside scrape_video_details
    attempt,       \* loop variable of `for attempt in range(max_retries + 1)`
    gotoCount,     \* number of page.goto(url) calls made by this call
    everyChallenged, \* the challenge test was positive on every attempt so far
    data,          \* the dict `data` being filled
    ret,           \* "pending", "None" or "data"
    pageOpen,      \* the detail page has been opened and not closed
    ran,           \* the extraction strategies that have run, in order
    elemCount,     \* number of elements the comment harvest last iterated over
    \* ---- scrape_and_save
    jpc,           \* control point inside scrape_and_save
    max_videos,    \* the argument max_videos
    video_urls,    \* what search_videos returned
    idx,           \* position of the for loop in video_urls (1-based)
    scraped_count,
    skipped_count,
    video_ids,
    summary,       \* the dict scrape_and_save returns
    db,            \* the rows of the videos table, oldest first
    log,           \* per candidate of this run: what happened to it
    insertCalls,   \* the tiktok_ids insert_video was called with, all runs
    scrapeCalls,   \* number of scrape_video_details calls, all runs
    secondRun,     \* the job is being run for the second time
    pages,         \* the pages of the browser context that are open
    pagesPeak,     \* the most pages that were open at one moment
    commentCalls,  \* the insert_comments calls of this run
    \* ---- search_videos
    spc,           \* control point inside search_videos
    variant,       \* "backend" (src/backend/scraper.py) or "root" (src/scraper.py)
    exposed,       \* the hrefs the search page lists, however far it is scrolled
    keyword,
    limit,
    navigated,     \* the URLs page.goto was called with, in order
    video_links,
    sret,          \* the list search_videos returned
    shot,          \* a diagnostic screenshot was taken
    searchPageOpen, \* the search page has been opened and not closed
    \* ---- the browser session around one run (start / stop)
    lpc,           \* control point of the function that owns the try/finally
    caller,        \* "scrape_and_save" or "run_scraper" (src/app.py)
    scraperArg,    \* the `scraper` argument: "none", "started" or "unstarted"
    close_scraper,
    session,       \* self.playwright, self.browser, self.context
    starts,        \* start() calls that returned
    stops,         \* stop() calls made
    exitPath,      \* how the try block was left
    closeLog,      \* the resources stop() asked to close, in order
    \* ---- a scrape job over several keywords (scrape_job, main)
    apc,           \* control point of the job
    runner,        \* "api" (scrape_job) or "main" (run_scraper_job.main)
    analyze,       \* the analyze flag of the job
    nkw,           \* len(keywords)
    results,       \* one entry per keyword processed
    all_video_ids,
    status,        \* jobs[job_id]["status"]; for main, the returned status
    error,         \* jobs[job_id]["error"]; for main, the returned error
    table,         \* the ids of the videos the videos table holds
    newIds,        \* the ids this job newly scraped
    analyzedLog,   \* the ids analyze_video and insert_sentiment ran for
    launchFailed,  \* the keyword at which start() raised (0: none)
    ai,            \* position of the analysis loop in all_video_ids
    totals,        \* total_scraped, total_skipped, total_videos of main's summary
    \* ---- single functions applied to one input
    fpc,
    fin,           \* the input
    fout,          \* the result
    \* ---- two scrape_job threads over one videos table
    tpc,           \* per job: control point inside the for loop of scrape_and_save
    tcands,        \* per job: the external ids of its candidates, in order
    tpos,          \* per job: position of the for loop
    shared,        \* the rows of the videos table both jobs use
    tcalls,        \* per job: the tiktok_ids it called insert_video with
    \* ---- one interstitial-dismissal sequence
    mpc,           \* control point inside the dismissal try block
    mwhere,        \* "search" (search_videos) or "details" (scrape_video_details)
    msel,          \* position of `for selector in close_selectors`
    mlog,          \* the page calls made, in order
    mswallowed,    \* the except clause of the block caught an exception
    \* ---- the service process: database connection, then the chat sessions
    hpc,           \* "connect", "connected", "failed", "serving" or "down"
    cattempt,      \* loop variable of `for attempt in range(DB_RETRY_ATTEMPTS)`
    outcomes,      \* how each create_client call ended, in order
    sleeps,        \* the delays time.sleep was called with, in order
    cclient,       \* what _connect_with_retry returned ("none": nothing yet)
    hasClient,     \* MistralChatService.client is set (MISTRAL_API_KEY given)
    MAX_CHAT_HISTORY_LENGTH, \* the configured value (environment, default 50)
    now,           \* datetime.now(), in seconds
    ticks,         \* number of times the clock was advanced
    sessions,      \* MistralChatService.sessions
    serial,        \* number of chat() calls made so far
    last           \* the last call on the chat service and what it gave

dvars == <<pc, attempt, gotoCount, everyChallenged, data, ret, pageOpen, ran, elemCount>>

jvars == <<jpc, max_videos, video_urls, idx, scraped_count, skipped_count,
           video_ids, summary, db, log, insertCalls, scrapeCalls, secondRun,
           pages, pagesPeak, commentCalls>>

svars == <<spc, variant, exposed, keyword, limit, navigated, video_links, sret, shot,
           searchPageOpen>>

lvars == <<lpc, caller, scraperArg, close_scraper, session, starts, stops,
           exitPath, closeLog>>

avars == <<apc, runner, analyze, nkw, results, all_video_ids, status, error,
           table, newIds, analyzedLog, launchFailed, ai, totals>>

fvars == <<fpc, fin, fout>>

cvars == <<tpc, tcands, tpos, shared, tcalls>>

mvars == <<mpc, mwhere, msel, mlog, mswallowed>>

hvars == <<hpc, cattempt, outcomes, sleeps, cclient, hasClient,
           MAX_CHAT_HISTORY_LENGTH, now, ticks, sessions, serial, last>>

xvars == <<cvars, mvars, hvars>>

\* The components added to the three first ones.
evars == <<lvars, avars, fvars, xvars>>

vars == <<dvars, jvars, svars, evars>>

(***************************************************************************)
(* Program constants and model bounds                                      *)
(***************************************************************************)
max_retries == 2
CommentCap == 20
MaxGoto == 5
MaxElems == 21
MaxVideos == 3
MaxLimit == 2
MaxLinks == 3
MaxKeywords == 2
MaxIds == 2

Rep(x, n) == [i \in 1..n |-> x]

(***************************************************************************)
(* scrape_video_details: the retry loop                                    *)
(***************************************************************************)
\* What one navigation attempt can do: page.goto raises; a later page call
\* (screenshot, content, title) raises; the challenge test is positive; or
\* the page loads clean.
AttemptOutcomes == {"goto_raises", "late_raises", "challenge", "clean"}

Raises(o) == o \in {"goto_raises", "late_raises"}

\* The loop bound misread as a while-loop that only gives up on exceptions.
RetryForeverOnChallenge(a, o) ==
    IF Raises(o)
    THEN IF a = max_retries THEN "return_none" ELSE "next"
    ELSE IF o = "challenge" THEN "again" ELSE "break"

\* Control after the body of iteration `a` of the for loop ended with o:
\* "next" = next iteration, "exhausted" = the range is used up and control
\* falls out of the loop, "break", or "return_none".
AfterAttempt(a, o) ==
    IF Raises(o)
    THEN IF a = max_retries THEN "return_none" ELSE "next"
    ELSE IF o = "challenge"
         THEN IF a + 1 <= max_retries THEN "next" ELSE "exhausted"
         ELSE "break"

EmptyData ==
    [keys |-> {"url"}, description |-> <<>>, author |-> <<>>,
     stats |-> [views |-> "absent", likes |-> "absent",
                shares |-> "absent", comments |-> "absent"],
     thumbnail |-> <<>>, hashtags |-> <<>>, comments |-> <<>>]

DetailsIdle ==
    /\ pc = "idle"
    /\ attempt = 0
    /\ gotoCount = 0
    /\ everyChallenged = TRUE
    /\ data = EmptyData
    /\ ret = "pending"
    /\ pageOpen = FALSE
    /\ ran = <<>>
    /\ elemCount = 0

NoSession == [playwright |-> "none", browser |-> "none", context |-> "none"]

SessionIdle ==
    /\ lpc = "idle"
    /\ caller = "scrape_and_save"
    /\ scraperArg = "none"
    /\ close_scraper = FALSE
    /\ session = NoSession
    /\ starts = 0
    /\ stops = 0
    /\ exitPath = "none"
    /\ closeLog = <<>>

NoTotals == [total_scraped |-> 0, total_skipped |-> 0, total_videos |-> 0]

ApiIdle ==
    /\ apc = "idle"
    /\ runner = "api"
    /\ analyze = FALSE
    /\ nkw = 0
    /\ results = <<>>
    /\ all_video_ids = <<>>
    /\ status = "none"
    /\ error = ""
    /\ table = {}
    /\ newIds = {}
    /\ analyzedLog = <<>>
    /\ launchFailed = 0
    /\ ai = 0
    /\ totals = NoTotals

FieldIdle ==
    /\ fpc = "idle"
    /\ fin = <<>>
    /\ fout = <<>>

Jobs == {1, 2}

ConcIdle ==
    /\ tpc = [j \in Jobs |-> "idle"]
    /\ tcands = [j \in Jobs |-> <<>>]
    /\ tpos = [j \in Jobs |-> 0]
    /\ shared = <<>>
    /\ tcalls = [j \in Jobs |-> <<>>]

DismissIdle ==
    /\ mpc = "idle"
    /\ mwhere = "search"
    /\ msel = 0
    /\ mlog = <<>>
    /\ mswallowed = FALSE

SessionIds == {"s1", "s2"}

NoChatSession == [present |-> FALSE, history |-> <<>>, last_activity |-> 0]

NoCall ==
    [op |-> "none", sid |-> "s1", idle |-> -1, before |-> <<>>, out |-> <<>>,
     failed |-> FALSE, message_count |-> 0]

ChatIdle ==
    /\ hpc = "idle"
    /\ cattempt = 0
    /\ outcomes = <<>>
    /\ sleeps = <<>>
    /\ cclient = "none"
    /\ hasClient = FALSE
    /\ MAX_CHAT_HISTORY_LENGTH = 1
    /\ now = 0
    /\ ticks = 0
    /\ sessions = [sid \in SessionIds |-> NoChatSession]
    /\ serial = 0
    /\ last = NoCall

ExtraIdle == ConcIdle /\ DismissIdle /\ ChatIdle

\* Nothing outside the three first components is running.
EnvIdle == SessionIdle /\ ApiIdle /\ FieldIdle /\ ExtraIdle

(***************************************************************************)
(* Python values                                                           *)
(***************************************************************************)
\* dict.get(key) on a parsed JSON object: the key is missing, or holds v.
Missing == [has |-> FALSE, v |-> <<>>]
Some(x) == [has |-> TRUE, v |-> x]

HasKey(d, k) == k \in d.keys
\* `not data.get(k)`: the key is missing or its value is the empty string.
Falsy(d, k) == ~HasKey(d, k) \/ d[k] = <<>>
\* data.get(k, '')
GetStr(d, k) == IF HasKey(d, k) THEN d[k] ELSE <<>>
\* data[k] = v
SetKey(d, k, v) == [d EXCEPT ![k] = v, !.keys = @ \cup {k}]

\* The first position of token t in string s, 0 when s does not hold it.
RECURSIVE Find(_, _, _)
Find(s, t, i) ==
    IF i > Len(s) THEN 0 ELSE IF s[i] = t THEN i ELSE Find(s, t, i + 1)

\* s.split(t)[0]
SplitFirst(s, t) ==
    LET i == Find(s, t, 1) IN IF i = 0 THEN s ELSE SubSeq(s, 1, i - 1)

\* s.strip()
RECURSIVE Strip(_)
Strip(s) ==
    IF s = <<>> THEN s
    ELSE IF Head(s) = " " THEN Strip(Tail(s))
    ELSE IF s[Len(s)] = " " THEN Strip(SubSeq(s, 1, Len(s) - 1))
    ELSE s

ON_TIKTOK == " on TikTok"

(***************************************************************************)
(* scrape_video_details: embedded-state JSON strategies                    *)
(***************************************************************************)
\* stats.get(name, 0) on the JSON stats object
JsonCounter(c) == IF c = "absent" THEN "0" ELSE c

\* Lines 259-264: the stats dict built from the JSON stats object.
StatsFromJson(st) ==
    [views |-> JsonCounter(st.playCount), likes |-> JsonCounter(st.diggCount),
     shares |-> JsonCounter(st.shareCount),
     comments |-> JsonCounter(st.commentCount)]

NoStats ==
    [playCount |-> "absent", diggCount |-> "absent",
     shareCount |-> "absent", commentCount |-> "absent"]

\* The tail of both JSON strategies (lines 258-268 and 282-292): stats,
\* thumbnail, hashtags, each of which raises on a JSON null.
JsonTail(d, item) ==
    IF item.stats.kind = "null" THEN [data |-> d, raised |-> TRUE]
    ELSE
    LET d3 == [d EXCEPT !.stats = StatsFromJson(
                    IF item.stats.kind = "missing" THEN NoStats ELSE item.stats.d),
                        !.keys = @ \cup {"stats"}]
    IN
    IF item.video.kind = "null" THEN [data |-> d3, raised |-> TRUE]
    ELSE
    LET d4 == SetKey(d3, "thumbnail",
                     IF item.video.kind = "missing" THEN <<>> ELSE item.video.cover)
    IN
    IF item.challenges.kind = "null" THEN [data |-> d4, raised |-> TRUE]
    ELSE [data |-> SetKey(d4, "hashtags",
                          IF item.challenges.kind = "missing" THEN <<>>
                          ELSE item.challenges.titles),
          raised |-> FALSE]

\* Lines 250-269: the SIGI_STATE script.
PrimaryJson(d, sigi) ==
    CASE sigi.kind = "nomatch" -> [data |-> d, raised |-> FALSE]
      [] sigi.kind = "badjson" -> [data |-> d, raised |-> TRUE]
      [] sigi.kind = "empty" -> [data |-> d, raised |-> FALSE]
      [] OTHER ->
         LET item == sigi.item
             d1 == SetKey(d, "description",
                          IF item.desc.has THEN item.desc.v
                          ELSE GetStr(d, "description"))
             d2 == SetKey(d1, "author",
                          IF item.author.has THEN item.author.v
                          ELSE GetStr(d1, "author"))
         IN JsonTail(d2, item)

\* Lines 272-292: the __UNIVERSAL_DATA_FOR_REHYDRATION__ script.
SecondaryJson(d, univ) ==
    IF HasKey(d, "description") THEN [data |-> d, raised |-> FALSE]
    ELSE
    CASE univ.kind = "nomatch" -> [data |-> d, raised |-> FALSE]
      [] univ.kind = "badjson" -> [data |-> d, raised |-> TRUE]
      [] univ.kind = "empty" -> [data |-> d, raised |-> FALSE]
      [] OTHER ->
         LET item == univ.item
             d1 == SetKey(d, "description",
                          IF item.desc.has THEN item.desc.v
                          ELSE GetStr(d, "description"))
         IN
         IF item.nickname.kind = "notdict" THEN [data |-> d1, raised |-> TRUE]
         ELSE
         LET d2 == SetKey(d1, "author",
                          IF item.nickname.kind = "str" THEN item.nickname.v
                          ELSE GetStr(d1, "author"))
         IN JsonTail(d2, item)

(***************************************************************************)
(* scrape_video_details: DOM / meta fallbacks                              *)
(***************************************************************************)
\* Lines 300-323. dom.meta: the meta[name=description] element ("none",
\* "raise" when a page call raises, or "el" with its content); dom.title:
\* the page title ("raise" or "str"); dom.el: the first of the description
\* element and the h1 that exists ("none" or "el" with its text).
DomDescriptionBody(d, dom) ==
    IF dom.meta.kind = "raise" THEN SetKey(d, "description", <<>>)
    ELSE
    LET d1 == IF dom.meta.kind = "el"
              THEN SetKey(d, "description", SplitFirst(dom.meta.v, ON_TIKTOK))
              ELSE d
    IN
    IF ~Falsy(d1, "description") THEN d1
    ELSE IF dom.title.kind = "raise" THEN SetKey(d1, "description", <<>>)
    ELSE
    LET d2 == SetKey(d1, "description",
                     IF Find(dom.title.v, "|", 1) # 0
                     THEN Strip(SplitFirst(dom.title.v, "|"))
                     ELSE dom.title.v)
    IN
    IF ~Falsy(d2, "description") THEN d2
    ELSE IF dom.el.kind = "raise" THEN SetKey(d2, "description", <<>>)
    ELSE SetKey(d2, "description",
                IF dom.el.kind = "el" THEN dom.el.v
                ELSE <<"No description found">>)

\* A fallback that does not look at what the JSON strategies stored.
DomDescriptionAlways(d, dom) == DomDescriptionBody(d, dom)

DomDescription(d, dom) ==
    IF Falsy(d, "description") THEN DomDescriptionBody(d, dom) ELSE d

\* Lines 326-332. og: the og:image meta element.
DomThumbnail(d, og) ==
    IF Falsy(d, "thumbnail") /\ og.kind = "el"
    THEN SetKey(d, "thumbnail", og.v) ELSE d

\* Lines 335-340. el: the first of the two author elements that exists.
DomAuthor(d, el) ==
    IF ~Falsy(d, "author") THEN d
    ELSE IF el.kind = "raise" THEN SetKey(d, "author", <<>>)
    ELSE SetKey(d, "author",
                IF el.kind = "el" THEN el.v ELSE <<"Unknown Author">>)

\* Lines 343-354. likes / comments: the text of the count element, "none"
\* when the element does not exist, "raise" when the page call raises.
DomStats(d, likes, comments) ==
    IF HasKey(d, "stats") THEN d
    ELSE
    LET d0 == [d EXCEPT !.keys = @ \cup {"stats"}] IN
    IF likes = "raise" THEN d0
    ELSE
    LET d1 == [d0 EXCEPT !.stats.likes = IF likes = "none" THEN "N/A" ELSE likes] IN
    IF comments = "raise" THEN d1
    ELSE [d1 EXCEPT !.stats.comments = IF comments = "none" THEN "N/A" ELSE comments,
                    !.stats.views = "N/A"]

\* Lines 357-362. tags: the texts of the a[href*="/tag/"] elements.
DomHashtags(d, tags) ==
    IF HasKey(d, "hashtags") THEN d
    ELSE IF tags.kind = "raise" THEN SetKey(d, "hashtags", <<>>)
    ELSE SetKey(d, "hashtags", tags.v)

(***************************************************************************)
(* scrape_video_details: comment harvest                                   *)
(***************************************************************************)
\* An element is named by the text it yields: "notext" is a container with
\* no <p> inside; "hi" is 2 characters long, "ok" 40, "long" 250; "trouble"
\* holds the player's "trouble playing" message.
HasTrouble(t) == t = "trouble"
TextLen(t) == CASE t = "hi" -> 2 [] t = "long" -> 250 [] OTHER -> 40

Min(a, b) == IF a <= b THEN a ELSE b
\* s[:n]
Take(s, n) == SubSeq(s, 1, Min(n, Len(s)))

KeepContainer(e) == e # "notext" /\ ~HasTrouble(e)
KeepParagraph(t) == TextLen(t) > 5 /\ TextLen(t) < 200 /\ ~HasTrouble(t)

\* The slice [:20] forgotten on the container loop.
ContainerCommentsUncapped(els) == SelectSeq(els, KeepContainer)

\* Lines 368-379. c1: the comment-level-1 containers, c2: the
\* DivCommentContentContainer elements.
ContainerComments(els) == SelectSeq(Take(els, CommentCap), KeepContainer)

\* Lines 381-386.
ParagraphComments(ps) == SelectSeq(Take(ps, CommentCap), KeepParagraph)

(***************************************************************************)
(* The pages the model feeds to scrape_video_details                       *)
(***************************************************************************)
Descs == {Missing, Some(<<>>), Some(<<"A">>)}
Authors == {Missing, Some(<<"a1">>)}
StatDicts ==
    [playCount : {"absent", "0", "7"}, diggCount : {"7"},
     shareCount : {"7"}, commentCount : {"absent"}]
StatsIn ==
    {[kind |-> "missing", d |-> NoStats], [kind |-> "null", d |-> NoStats]}
    \cup {[kind |-> "dict", d |-> x] : x \in StatDicts}
VideoIn ==
    {[kind |-> "missing", cover |-> <<>>], [kind |-> "null", cover |-> <<>>],
     [kind |-> "dict", cover |-> <<"t1">>]}
ChallengesIn ==
    {[kind |-> "missing", titles |-> <<>>], [kind |-> "null", titles |-> <<>>],
     [kind |-> "list", titles |-> <<"h1">>]}
Nicknames ==
    {[kind |-> "missing", v |-> <<>>], [kind |-> "notdict", v |-> <<>>],
     [kind |-> "str", v |-> <<"n1">>]}

NoItem ==
    [desc |-> Missing, author |-> Missing, nickname |-> [kind |-> "missing", v |-> <<>>],
     stats |-> [kind |-> "missing", d |-> NoStats],
     video |-> [kind |-> "missing", cover |-> <<>>],
     challenges |-> [kind |-> "missing", titles |-> <<>>]]

SigiItems ==
    {[NoItem EXCEPT !.desc = de, !.author = au, !.stats = st, !.video = vi,
                    !.challenges = ch] :
        de \in Descs, au \in Authors, st \in StatsIn, vi \in VideoIn,
        ch \in ChallengesIn}
UnivItems ==
    {[NoItem EXCEPT !.desc = de, !.nickname = ni, !.stats = st, !.video = vi,
                    !.challenges = ch] :
        de \in Descs, ni \in Nicknames, st \in StatsIn, vi \in VideoIn,
        ch \in ChallengesIn}
Scripts(Items) ==
    {[kind |-> k, item |-> NoItem] : k \in {"nomatch", "badjson", "empty"}}
    \cup {[kind |-> "item", item |-> it] : it \in Items}

Elem(k, x) == [kind |-> k, v |-> x]
MetaIn ==
    {Elem("none", <<>>), Elem("raise", <<>>), Elem("el", <<>>),
     Elem("el", <<"B", ON_TIKTOK>>), Elem("el", <<ON_TIKTOK>>),
     Elem("el", <<"B", ON_TIKTOK, "C", ON_TIKTOK>>)}
TitleIn ==
    {Elem("raise", <<>>), Elem("str", <<>>), Elem("str", <<"T">>),
     Elem("str", <<"T", " ", "|", " ", "U">>), Elem("str", <<" ", "|", "U">>)}
TextElIn == {Elem("none", <<>>), Elem("raise", <<>>), Elem("el", <<"D">>)}
DomIn == [meta : MetaIn, title : TitleIn, el : TextElIn]
OgIn == {Elem("none", <<>>), Elem("raise", <<>>), Elem("el", <<"og">>)}
LikesIn == {"none", "raise", "1.2K"}
CommentCountIn == {"none", "1.2K"}
TagsIn == {Elem("raise", <<>>), Elem("els", <<>>), Elem("els", <<"#t">>)}

ContainerKinds == {"notext", "trouble", "ok"}
ParagraphKinds == {"hi", "ok", "long", "trouble"}
\* Element lists around the cap and up to MaxElems + 1 long: n elements of
\* one kind, with or without an accepted element in front.
ElemCounts == {0, 1, CommentCap - 1, CommentCap, MaxElems}
ElemLists(K) ==
    {Rep("ok", m) \o Rep(b, n) : b \in K, m \in 0..1, n \in ElemCounts}

(***************************************************************************)
(* scrape_and_save and the persistence calls it makes                      *)
(***************************************************************************)
NoneId == "None"
IsDigits(t) == t \in {"111", "222", "333"}

\* Lines 14-34: re.search(r'/video/(\d+)', url), the first "/video/" that
\* digits follow.
RECURSIVE extract_from(_, _)
extract_from(url, i) ==
    IF i >= Len(url) THEN NoneId
    ELSE IF url[i] = "/video/" /\ IsDigits(url[i + 1]) THEN url[i + 1]
    ELSE extract_from(url, i + 1)

extract_tiktok_id(url) == extract_from(url, 1)

NoRow == [id |-> 0, tiktok_id |-> NoneId]

RECURSIVE first_row(_, _, _)
first_row(rows, tid, i) ==
    IF i > Len(rows) THEN NoRow
    ELSE IF rows[i].tiktok_id = tid THEN rows[i]
    ELSE first_row(rows, tid, i + 1)

\* database.py lines 65-82: the first matching row; None (NoRow) when there
\* is none and also when the query raises (ok = FALSE).
get_video_by_tiktok_id(rows, tid, ok) ==
    IF ok THEN first_row(rows, tid, 1) ELSE NoRow

\* database.py lines 46-63: the new row's id, rows' the table afterwards;
\* id 0 (None) and an unchanged table when the insert raises.
insert_video(rows, tid, ok) ==
    IF ok
    THEN [id |-> Len(rows) + 1,
          rows |-> Append(rows, [id |-> Len(rows) + 1, tiktok_id |-> tid])]
    ELSE [id |-> 0, rows |-> rows]

\* The exits of scrape_video_details as scrape_and_save sees them: None
\* (line 244), the dict (line 391), or an exception of a page call that no
\* try encloses (lines 181, 365-386).
ScrapeResults == {"None", "data", "exception"}

Max(a, b) == IF a >= b THEN a ELSE b

\* A None return that leaves the page as it is (no page.close() before it).
PagesLeftByNoCloseOnNone(result) == IF result = "data" THEN {0} ELSE {0, 1}

\* The pages a call leaves open in the context: scrape_video_details
\* closes its page before both returns (lines 243, 390) and search_videos
\* before its return (line 176); an exception that propagates leaves the
\* page open, unless it came from new_page() itself.
PagesLeftBy(result) == IF result = "exception" THEN {0, 1} ELSE {0}

\* insert_comments called whatever insert_video returned and whatever the
\* page carried.
CommentCallsUnguarded(video_id, comments) ==
    <<[video_id |-> video_id, comments |-> comments]>>

\* Lines 474-490: the insert_comments calls that follow insert_video.
CommentCalls(video_id, comments) ==
    IF video_id # 0 /\ comments # <<>>
    THEN <<[video_id |-> video_id, comments |-> comments]>>
    ELSE <<>>

\* A failed extraction counted like an already-known video.
LoopEffectFailedSkipped(kind, id) ==
    CASE kind = "existing" -> [scraped |-> 0, skipped |-> 1, ids |-> <<id>>, go |-> "continue"]
      [] kind = "inserted" -> [scraped |-> 1, skipped |-> 0, ids |-> <<id>>, go |-> "continue"]
      [] kind = "failed" -> [scraped |-> 0, skipped |-> 1, ids |-> <<>>, go |-> "continue"]
      [] kind = "exception" -> [scraped |-> 0, skipped |-> 0, ids |-> <<>>, go |-> "raise"]
      [] OTHER -> [scraped |-> 0, skipped |-> 0, ids |-> <<>>, go |-> "continue"]

\* A failed extraction ending the loop (break instead of continue).
LoopEffectFailedBreaks(kind, id) ==
    CASE kind = "existing" -> [scraped |-> 0, skipped |-> 1, ids |-> <<id>>, go |-> "continue"]
      [] kind = "inserted" -> [scraped |-> 1, skipped |-> 0, ids |-> <<id>>, go |-> "continue"]
      [] kind = "failed" -> [scraped |-> 0, skipped |-> 0, ids |-> <<>>, go |-> "break"]
      [] kind = "exception" -> [scraped |-> 0, skipped |-> 0, ids |-> <<>>, go |-> "raise"]
      [] OTHER -> [scraped |-> 0, skipped |-> 0, ids |-> <<>>, go |-> "continue"]

\* The `continue` after the existing-video branch lost: the video is
\* counted as skipped and then as scraped too.
LoopEffectExistingFallsThrough(kind, id) ==
    CASE kind = "existing" -> [scraped |-> 1, skipped |-> 1, ids |-> <<id, id>>, go |-> "continue"]
      [] kind = "inserted" -> [scraped |-> 1, skipped |-> 0, ids |-> <<id>>, go |-> "continue"]
      [] kind = "exception" -> [scraped |-> 0, skipped |-> 0, ids |-> <<>>, go |-> "raise"]
      [] OTHER -> [scraped |-> 0, skipped |-> 0, ids |-> <<>>, go |-> "continue"]

\* The id of an already-known video left out of video_ids.
LoopEffectSkipWithoutId(kind, id) ==
    CASE kind = "existing" -> [scraped |-> 0, skipped |-> 1, ids |-> <<>>, go |-> "continue"]
      [] kind = "inserted" -> [scraped |-> 1, skipped |-> 0, ids |-> <<id>>, go |-> "continue"]
      [] kind = "exception" -> [scraped |-> 0, skipped |-> 0, ids |-> <<>>, go |-> "raise"]
      [] OTHER -> [scraped |-> 0, skipped |-> 0, ids |-> <<>>, go |-> "continue"]

\* Lines 433-492: what one iteration of the for loop does to the counters
\* and to video_ids. kind: "noid" (line 436), "existing" (442), "failed"
\* (452), "inserted" (474), "rejected" (491), "exception" (450 raises).
LoopEffect(kind, id) ==
    CASE kind = "existing" -> [scraped |-> 0, skipped |-> 1, ids |-> <<id>>, go |-> "continue"]
      [] kind = "inserted" -> [scraped |-> 1, skipped |-> 0, ids |-> <<id>>, go |-> "continue"]
      [] kind = "exception" -> [scraped |-> 0, skipped |-> 0, ids |-> <<>>, go |-> "raise"]
      [] OTHER -> [scraped |-> 0, skipped |-> 0, ids |-> <<>>, go |-> "continue"]

\* The candidate URLs of the model: three videos, a second URL of video
\* 111, and a link whose path holds no numeric id.
U111 == <<"https://www.tiktok.com/@a", "/video/", "111">>
U222 == <<"https://www.tiktok.com/@b", "/video/", "222">>
U333 == <<"https://www.tiktok.com/@c", "/video/", "333">>
U111q == <<"https://www.tiktok.com/@a", "/video/", "111", "?lang=en">>
UNoId == <<"https://www.tiktok.com/@d", "/video/", "live">>

\* The links in the order the page lists them.
AllUrls == <<U111, UNoId, U222, U111q, U333>>

\* The sub-lists of s at most n long, order kept.
RECURSIVE SubLists(_, _)
SubLists(s, n) ==
    IF s = <<>> \/ n = 0 THEN {<<>>}
    ELSE SubLists(Tail(s), n)
         \cup {<<Head(s)>> \o t : t \in SubLists(Tail(s), n - 1)}

\* The tables the run can start from: none, one or all of the three videos
\* stored.
InitialTables ==
    {<<>>,
     <<[id |-> 1, tiktok_id |-> "222"]>>,
     <<[id |-> 1, tiktok_id |-> "111"], [id |-> 2, tiktok_id |-> "222"],
       [id |-> 3, tiktok_id |-> "333"]>>}

NoSummary == [found |-> 0, scraped |-> 0, skipped |-> 0, video_ids |-> <<>>]

JobIdle ==
    /\ jpc = "idle"
    /\ max_videos = 0
    /\ video_urls = <<>>
    /\ idx = 0
    /\ scraped_count = 0
    /\ skipped_count = 0
    /\ video_ids = <<>>
    /\ summary = NoSummary
    /\ db = <<>>
    /\ log = <<>>
    /\ insertCalls = <<>>
    /\ scrapeCalls = 0
    /\ secondRun = FALSE
    /\ pages = 0
    /\ pagesPeak = 0
    /\ commentCalls = <<>>

JobInit ==
    /\ jpc = "search"
    /\ max_videos \in {1, MaxVideos}
    /\ video_urls = <<>>
    /\ idx = 0
    /\ scraped_count = 0
    /\ skipped_count = 0
    /\ video_ids = <<>>
    /\ summary = NoSummary
    /\ db \in InitialTables
    /\ log = <<>>
    /\ insertCalls = <<>>
    /\ scrapeCalls = 0
    /\ secondRun = FALSE
    /\ pages = 0
    /\ pagesPeak = 0
    /\ commentCalls = <<>>

\* Lines 417-431: search_videos returns at most max_videos distinct links
\* (or raises); no links is the early return.
SearchStep ==
    /\ jpc = "search"
    /\ \/ /\ jpc' = "raised"
          /\ \E left \in PagesLeftBy("exception") :
               /\ pages' = pages + left
               /\ pagesPeak' = Max(pagesPeak, pages + left)
          /\ UNCHANGED <<video_urls, idx, summary>>
       \/ \E urls \in SubLists(AllUrls, max_videos) :
            /\ pages' = pages
            /\ pagesPeak' = Max(pagesPeak, pages + 1)
            /\ video_urls' = urls
            /\ IF urls = <<>>
               THEN /\ jpc' = "returned"
                    /\ summary' = NoSummary
                    /\ UNCHANGED idx
               ELSE /\ jpc' = "loop"
                    /\ idx' = 1
                    /\ UNCHANGED summary
    /\ UNCHANGED <<max_videos, scraped_count, skipped_count, video_ids, db, log,
                   insertCalls, scrapeCalls, secondRun, commentCalls>>
    /\ UNCHANGED <<dvars, svars, evars>>

\* The bookkeeping shared by every way one loop iteration can end; the log
\* entry keeps `stored`, the id of the row the table held for tid (0: none).
Finish(kind, tid, id, rows, stored) ==
    LET e == LoopEffect(kind, id) IN
    /\ scraped_count' = scraped_count + e.scraped
    /\ skipped_count' = skipped_count + e.skipped
    /\ video_ids' = video_ids \o e.ids
    /\ db' = rows
    /\ log' = Append(log, [url |-> video_urls[idx], tid |-> tid, kind |-> kind,
                           id |-> id, stored |-> stored])
    /\ jpc' = IF e.go = "raise" THEN "raised" ELSE "loop"
    /\ idx' = CASE e.go = "continue" -> idx + 1
                [] e.go = "break" -> Len(video_urls) + 1
                [] OTHER -> idx

\* The comment lists a scraped page can carry (data['comments']).
CommentLists == {<<>>, <<"nice">>}

\* Lines 433-492: one iteration of `for url in video_urls`.
ProcessUrl ==
    /\ jpc = "loop"
    /\ idx <= Len(video_urls)
    /\ LET url == video_urls[idx]
           tiktok_id == extract_tiktok_id(url)
           stored == first_row(db, tiktok_id, 1).id
       IN
       IF tiktok_id = NoneId
       THEN /\ Finish("noid", tiktok_id, 0, db, 0)
            /\ UNCHANGED <<insertCalls, scrapeCalls, pages, pagesPeak, commentCalls>>
       ELSE \E lookupOk \in BOOLEAN :
            LET existing == get_video_by_tiktok_id(db, tiktok_id, lookupOk) IN
            IF existing # NoRow
            THEN /\ Finish("existing", tiktok_id, existing.id, db, stored)
                 /\ UNCHANGED <<insertCalls, scrapeCalls, pages, pagesPeak,
                                commentCalls>>
            ELSE /\ scrapeCalls' = scrapeCalls + 1
                 /\ \E video_data \in ScrapeResults :
                      /\ \E left \in PagesLeftBy(video_data) :
                           /\ pages' = pages + left
                           /\ pagesPeak' =
                                 Max(pagesPeak,
                                     pages + (IF video_data = "exception" THEN left ELSE 1))
                      /\ CASE video_data = "exception" ->
                             /\ Finish("exception", tiktok_id, 0, db, stored)
                             /\ UNCHANGED <<insertCalls, commentCalls>>
                        [] video_data = "None" ->
                             /\ Finish("failed", tiktok_id, 0, db, stored)
                             /\ UNCHANGED <<insertCalls, commentCalls>>
                        [] OTHER ->
                             /\ insertCalls' = Append(insertCalls, tiktok_id)
                             /\ \E insertOk \in BOOLEAN, comments \in CommentLists :
                                  LET r == insert_video(db, tiktok_id, insertOk) IN
                                  /\ Finish(IF r.id # 0 THEN "inserted" ELSE "rejected",
                                            tiktok_id, r.id, r.rows, stored)
                                  /\ commentCalls' =
                                        commentCalls \o CommentCalls(r.id, comments)
    /\ UNCHANGED <<max_videos, video_urls, summary, secondRun>>
    /\ UNCHANGED <<dvars, svars, evars>>

\* Lines 494-500.
ReturnSummary ==
    /\ jpc = "loop"
    /\ idx > Len(video_urls)
    /\ summary' = [found |-> Len(video_urls), scraped |-> scraped_count,
                   skipped |-> skipped_count, video_ids |-> video_ids]
    /\ jpc' = "returned"
    /\ UNCHANGED <<max_videos, video_urls, idx, scraped_count, skipped_count,
                   video_ids, db, log, insertCalls, scrapeCalls, secondRun,
                   pages, pagesPeak, commentCalls>>
    /\ UNCHANGED <<dvars, svars, evars>>

\* The same keyword job run again: scrape_and_save is called a second time
\* and search_videos returns the same candidates.
RunAgain ==
    /\ jpc = "returned"
    /\ video_urls # <<>>
    /\ ~secondRun
    /\ secondRun' = TRUE
    /\ jpc' = "loop"
    /\ idx' = 1
    /\ scraped_count' = 0
    /\ skipped_count' = 0
    /\ video_ids' = <<>>
    /\ log' = <<>>
    /\ summary' = NoSummary
    /\ commentCalls' = <<>>
    /\ UNCHANGED <<max_videos, video_urls, db, insertCalls, scrapeCalls,
                   pages, pagesPeak>>
    /\ UNCHANGED <<dvars, svars, evars>>

(***************************************************************************)
(* search_videos (src/backend/scraper.py and src/scraper.py)               *)
(***************************************************************************)
Keywords == {<<"funny", " ", "cats">>, <<"cats">>}

\* s.replace(a, b) for a one-token a; b is a string (<<>> removes a).
RECURSIVE Replace(_, _, _)
Replace(s, a, b) ==
    IF s = <<>> THEN <<>>
    ELSE (IF Head(s) = a THEN b ELSE <<Head(s)>>) \o Replace(Tail(s), a, b)

\* src/backend/scraper.py lines 80-81; src/scraper.py lines 41-42 (quote()
\* turns a space into %20 as well).
SearchUrl(k) == <<"https://www.tiktok.com/search?q=">> \o Replace(k, " ", <<"%20">>)
\* src/backend/scraper.py lines 144-145.
TagUrl(k) == <<"https://www.tiktok.com/tag/">> \o Replace(k, " ", <<>>)

Range(f) == {f[i] : i \in DOMAIN f}

\* The hrefs a query_selector_all('a[href*="/video/"]') can yield: up to
\* MaxLinks links of the page in page order, possibly each listed twice.
PageLists ==
    LET L == SubLists(AllUrls, MaxLinks) IN L \cup {l \o l : l \in L}

\* What the search page of one call can list at all.
ExposedSets == {{}, {U111}, {U111, UNoId, U222}, Range(AllUrls)}

\* The lists a query of a page exposing the hrefs S can yield.
PageListsOf(S) == {l \in PageLists : Range(l) \subseteq S}

\* `if href and "/video/" in href`
IsVideoHref(h) == Find(h, "/video/", 1) # 0

\* The links kept as collected, duplicates included.
NotDeduped(links) == {links}

\* list(set(video_links)): the distinct links in any order.
Deduped(links) ==
    LET S == Range(links) IN
    {q \in [1..Cardinality(S) -> S] : \A i, j \in DOMAIN q : i # j => q[i] # q[j]}

\* src/scraper.py lines 60-65: the inner for loop.
RECURSIVE AppendNew(_, _, _)
AppendNew(links, els, lim) ==
    IF els = <<>> THEN links
    ELSE LET h == Head(els)
             l2 == IF IsVideoHref(h) /\ h \notin Range(links)
                   THEN Append(links, h) ELSE links
         IN IF l2 # links /\ Len(l2) >= lim THEN l2
            ELSE AppendNew(l2, Tail(els), lim)

SearchIdle ==
    /\ spc = "idle"
    /\ variant = "backend"
    /\ exposed = {}
    /\ keyword = <<>>
    /\ limit = 0
    /\ navigated = <<>>
    /\ video_links = <<>>
    /\ sret = <<>>
    /\ shot = FALSE
    /\ searchPageOpen = FALSE

SearchInit ==
    /\ spc = "open"
    /\ variant \in {"backend", "root"}
    /\ exposed \in ExposedSets
    /\ keyword \in Keywords
    /\ limit \in 1..MaxLimit
    /\ navigated = <<>>
    /\ video_links = <<>>
    /\ sret = <<>>
    /\ shot = FALSE
    /\ searchPageOpen = FALSE

\* backend 76-84, root 40-45: new_page() and page.goto(url); goto raising
\* is not caught.
SearchOpen ==
    /\ spc = "open"
    /\ navigated' = Append(navigated, SearchUrl(keyword))
    /\ searchPageOpen' = TRUE
    /\ \/ spc' = "raised"
       \/ spc' = IF variant = "backend" THEN "modal" ELSE "rootwait"
    /\ UNCHANGED <<variant, exposed, keyword, limit, video_links, sret, shot>>
    /\ UNCHANGED <<dvars, jvars, evars>>

\* backend 86-116: the interstitial dismissal, one try around all of it.
SearchDismiss ==
    /\ spc = "modal"
    /\ spc' = "wait"
    /\ UNCHANGED <<variant, exposed, keyword, limit, navigated, video_links, sret, shot,
                   searchPageOpen>>
    /\ UNCHANGED <<dvars, jvars, evars>>

\* backend 118-137: scroll, wait for the selector (a timeout is swallowed),
\* collect and deduplicate; query_selector_all raising is not caught.
SearchCollect ==
    /\ spc = "wait"
    /\ \/ /\ spc' = "raised"
          /\ UNCHANGED video_links
       \/ /\ \E els \in PageListsOf(exposed) :
               video_links' \in Deduped(SelectSeq(els, IsVideoHref))
          /\ spc' = IF video_links' = <<>> THEN "fallback" ELSE "finish"
    /\ UNCHANGED <<variant, exposed, keyword, limit, navigated, sret, shot, searchPageOpen>>
    /\ UNCHANGED <<dvars, jvars, evars>>

\* backend 140-170: the hashtag page; any exception in it is swallowed.
SearchFallback ==
    /\ spc = "fallback"
    /\ navigated' = Append(navigated, TagUrl(keyword))
    /\ \/ UNCHANGED video_links          \* goto or a later call raises
       \/ \E els \in PageLists :
            video_links' \in Deduped(video_links \o SelectSeq(els, IsVideoHref))
    /\ spc' = "finish"
    /\ UNCHANGED <<variant, exposed, keyword, limit, sret, shot, searchPageOpen>>
    /\ UNCHANGED <<dvars, jvars, evars>>

\* backend 172-177.
SearchFinish ==
    /\ spc = "finish"
    /\ \/ /\ video_links = <<>>
          /\ shot' = TRUE
          /\ \/ /\ spc' = "raised"       \* page.screenshot raises
                /\ UNCHANGED <<sret, searchPageOpen>>
             \/ /\ spc' = "returned"
                /\ sret' = Take(video_links, limit)
                /\ searchPageOpen' = FALSE
       \/ /\ video_links # <<>>
          /\ spc' = "returned"
          /\ sret' = Take(video_links, limit)
          /\ searchPageOpen' = FALSE
          /\ UNCHANGED shot
    /\ UNCHANGED <<variant, exposed, keyword, limit, navigated, video_links>>
    /\ UNCHANGED <<dvars, jvars, evars>>

\* root 47-56: the selector wait; on a timeout, screenshot and return [].
RootWait ==
    /\ spc = "rootwait"
    /\ \/ /\ shot' = TRUE
          /\ spc' = "returned"
          /\ sret' = <<>>
       \/ /\ exposed # {}             \* the selector matched an element
          /\ spc' = "rootloop"
          /\ UNCHANGED <<shot, sret>>
    /\ UNCHANGED <<variant, exposed, keyword, limit, navigated, video_links, searchPageOpen>>
    /\ UNCHANGED <<dvars, jvars, evars>>

\* root 58-69: one iteration of `while len(video_links) < limit`. A pass
\* over a page that lists no new link changes nothing and the loop
\* condition still holds: the loop goes round again (scroll, sleep, query).
RootLoop ==
    /\ spc = "rootloop"
    /\ Len(video_links) < limit
    /\ \/ /\ spc' = "raised"
          /\ UNCHANGED video_links
       \/ /\ \E els \in PageListsOf(exposed) :
               video_links' = AppendNew(video_links, els, limit)
          /\ UNCHANGED spc
    /\ UNCHANGED <<variant, exposed, keyword, limit, navigated, sret, shot, searchPageOpen>>
    /\ UNCHANGED <<dvars, jvars, evars>>

\* root 71-72.
RootReturn ==
    /\ spc = "rootloop"
    /\ Len(video_links) >= limit
    /\ spc' = "returned"
    /\ sret' = Take(video_links, limit)
    /\ searchPageOpen' = FALSE
    /\ UNCHANGED <<variant, exposed, keyword, limit, navigated, video_links, shot>>
    /\ UNCHANGED <<dvars, jvars, evars>>

\* scrape_and_save lines 417-427 and 494-500, as far as `found` goes:
\* video_urls is what search_videos returned, the candidate loop leaves it
\* alone, and a returned summary counts it.
CountFound ==
    /\ spc = "returned"
    /\ variant = "backend"
    /\ jpc = "idle"
    /\ max_videos' = limit
    /\ video_urls' = sret
    /\ summary' = [NoSummary EXCEPT
                      !.found = IF sret = <<>> THEN 0 ELSE Len(sret)]
    /\ jpc' = "counted"
    /\ UNCHANGED <<idx, scraped_count, skipped_count, video_ids, db, log,
                   insertCalls, scrapeCalls, secondRun, pages, pagesPeak,
                   commentCalls>>
    /\ UNCHANGED <<dvars, svars, evars>>

SearchNext ==
    \/ SearchOpen
    \/ SearchDismiss
    \/ SearchCollect
    \/ SearchFallback
    \/ SearchFinish
    \/ RootWait
    \/ RootLoop
    \/ RootReturn
    \/ CountFound

SearchSpecInit == SearchInit /\ DetailsIdle /\ JobIdle /\ EnvIdle

SearchSpec == SearchSpecInit /\ [][SearchNext]_vars

\* Every awaited page call ends (it completes, raises or times out), so a
\* step that is waiting to run is run; an iteration of the while loop is
\* run as long as the loop condition holds, but nothing makes a page call
\* raise.
SearchFairSpec ==
    /\ SearchSpec
    /\ WF_vars(SearchOpen \/ SearchDismiss \/ SearchCollect \/ SearchFallback
                 \/ SearchFinish \/ RootWait \/ RootReturn)
    /\ WF_vars(RootLoop /\ spc' = spc)

DetailsInit ==
    /\ pc = "call"
    /\ attempt = 0
    /\ gotoCount = 0
    /\ everyChallenged = TRUE
    /\ data = EmptyData
    /\ ret = "pending"
    /\ pageOpen = FALSE
    /\ ran = <<>>
    /\ elemCount = 0

\* page = await self.context.new_page(); data = {'url': url}
NewPage ==
    /\ UNCHANGED <<jvars, svars, evars>>
    /\ pc = "call"
    /\ \/ /\ pc' = "loop"
          /\ pageOpen' = TRUE
          /\ UNCHANGED ret
       \/ /\ pc' = "raised"          \* new_page() raises: not inside any try
          /\ ret' = "exception"
          /\ UNCHANGED pageOpen
    /\ UNCHANGED <<attempt, gotoCount, everyChallenged, data, ran, elemCount>>

\* One iteration of the for loop.
Attempt ==
    /\ UNCHANGED <<jvars, svars, evars>>
    /\ pc = "loop"
    /\ gotoCount < MaxGoto
    /\ \E o \in AttemptOutcomes :
         LET after == AfterAttempt(attempt, o) IN
         /\ gotoCount' = gotoCount + 1
         /\ everyChallenged' = (everyChallenged /\ o = "challenge")
         /\ data' = IF o = "goto_raises" THEN data
                    ELSE [data EXCEPT !.keys = @ \cup {"screenshot_base64"}]
         /\ attempt' = IF after = "next" THEN attempt + 1 ELSE attempt
         /\ pc' = CASE after \in {"next", "again"} -> "loop"
                    [] after = "return_none" -> "returned"
                    [] OTHER -> "json"
         /\ ret' = IF after = "return_none" THEN "None" ELSE ret
         /\ pageOpen' = IF after = "return_none" THEN FALSE ELSE pageOpen
    /\ UNCHANGED <<ran, elemCount>>

\* Lines 249-269.
PrimaryStep ==
    /\ UNCHANGED <<jvars, svars, evars>>
    /\ pc = "json"
    /\ \E sigi \in Scripts(SigiItems) :
         LET r == PrimaryJson(data, sigi) IN
         /\ data' = r.data
         /\ pc' = IF r.raised THEN "dom_description" ELSE "univ"
         /\ ran' = Append(ran, "primary")
    /\ UNCHANGED <<attempt, gotoCount, everyChallenged, ret, pageOpen, elemCount>>

\* Lines 271-295.
SecondaryStep ==
    /\ UNCHANGED <<jvars, svars, evars>>
    /\ pc = "univ"
    /\ \/ /\ HasKey(data, "description")
          /\ UNCHANGED <<data, ran>>
       \/ /\ ~HasKey(data, "description")
          /\ \E univ \in Scripts(UnivItems) :
               data' = SecondaryJson(data, univ).data
          /\ ran' = Append(ran, "secondary")
    /\ pc' = "dom_description"
    /\ UNCHANGED <<attempt, gotoCount, everyChallenged, ret, pageOpen, elemCount>>

\* Lines 299-323.
DomDescriptionStep ==
    /\ UNCHANGED <<jvars, svars, evars>>
    /\ pc = "dom_description"
    /\ \E dom \in DomIn : data' = DomDescription(data, dom)
    /\ pc' = "dom_thumbnail"
    /\ ran' = Append(ran, "dom")
    /\ UNCHANGED <<attempt, gotoCount, everyChallenged, ret, pageOpen, elemCount>>

\* Lines 325-332.
DomThumbnailStep ==
    /\ UNCHANGED <<jvars, svars, evars>>
    /\ pc = "dom_thumbnail"
    /\ \E og \in OgIn : data' = DomThumbnail(data, og)
    /\ pc' = "dom_author"
    /\ UNCHANGED <<attempt, gotoCount, everyChallenged, ret, pageOpen, ran, elemCount>>

\* Lines 334-340.
DomAuthorStep ==
    /\ UNCHANGED <<jvars, svars, evars>>
    /\ pc = "dom_author"
    /\ \E el \in TextElIn : data' = DomAuthor(data, el)
    /\ pc' = "dom_stats"
    /\ UNCHANGED <<attempt, gotoCount, everyChallenged, ret, pageOpen, ran, elemCount>>

\* Lines 342-354.
DomStatsStep ==
    /\ UNCHANGED <<jvars, svars, evars>>
    /\ pc = "dom_stats"
    /\ \E likes \in LikesIn, cm \in CommentCountIn :
         data' = DomStats(data, likes, cm)
    /\ pc' = "dom_hashtags"
    /\ UNCHANGED <<attempt, gotoCount, everyChallenged, ret, pageOpen, ran, elemCount>>

\* Lines 356-362.
DomHashtagsStep ==
    /\ UNCHANGED <<jvars, svars, evars>>
    /\ pc = "dom_hashtags"
    /\ \E tags \in TagsIn : data' = DomHashtags(data, tags)
    /\ pc' = "comments"
    /\ UNCHANGED <<attempt, gotoCount, everyChallenged, ret, pageOpen, ran, elemCount>>

\* Lines 364-379. `comments` is kept in data.comments; the key is set on
\* line 388.
HarvestContainers ==
    /\ UNCHANGED <<jvars, svars, evars>>
    /\ pc = "comments"
    /\ \/ /\ pc' = "raised"          \* page.evaluate / query_selector_all raises
          /\ ret' = "exception"
          /\ UNCHANGED <<data, elemCount>>
       \/ /\ \E c1 \in ElemLists(ContainerKinds) :
               \E c2 \in IF c1 = <<>> THEN ElemLists(ContainerKinds) ELSE {<<>>} :
                  LET els == IF c1 = <<>> THEN c2 ELSE c1 IN
                  /\ data' = [data EXCEPT !.comments = ContainerComments(els)]
                  /\ elemCount' = Len(els)
          /\ pc' = "paragraphs"
          /\ UNCHANGED ret
    /\ UNCHANGED <<attempt, gotoCount, everyChallenged, pageOpen, ran>>

\* Lines 381-391.
HarvestParagraphs ==
    /\ UNCHANGED <<jvars, svars, evars>>
    /\ pc = "paragraphs"
    /\ \/ /\ data.comments = <<>>
          /\ \/ /\ pc' = "raised"
                /\ ret' = "exception"
                /\ UNCHANGED <<data, pageOpen, elemCount>>
             \/ /\ \E ps \in ElemLists(ParagraphKinds) :
                     /\ data' = SetKey(data, "comments", ParagraphComments(ps))
                     /\ elemCount' = Len(ps)
                /\ pc' = "returned"
                /\ ret' = "data"
                /\ pageOpen' = FALSE
       \/ /\ data.comments # <<>>
          /\ data' = SetKey(data, "comments", data.comments)
          /\ pc' = "returned"
          /\ ret' = "data"
          /\ pageOpen' = FALSE
          /\ UNCHANGED elemCount
    /\ UNCHANGED <<attempt, gotoCount, everyChallenged, ran>>

DetailsNext ==
    \/ NewPage
    \/ Attempt
    \/ PrimaryStep
    \/ SecondaryStep
    \/ DomDescriptionStep
    \/ DomThumbnailStep
    \/ DomAuthorStep
    \/ DomStatsStep
    \/ DomHashtagsStep
    \/ HarvestContainers
    \/ HarvestParagraphs

DetailsSpecInit == DetailsInit /\ JobIdle /\ SearchIdle /\ EnvIdle

DetailsSpec == DetailsSpecInit /\ [][DetailsNext]_vars

\* Every awaited page call completes, raises or times out (lines 124, 220),
\* so a started iteration of the retry loop always runs to its end.
DetailsFairSpec == DetailsSpec /\ WF_vars(Attempt)

Init == JobInit /\ DetailsIdle /\ SearchIdle /\ EnvIdle

Next ==
    \/ SearchStep
    \/ ProcessUrl
    \/ ReturnSummary
    \/ RunAgain

Spec == Init /\ [][Next]_vars

(***************************************************************************)
(* The browser session: TikTokScraper.start / stop and the try/finally     *)
(* of scrape_and_save (src/backend/scraper.py) and run_scraper (src/app.py)*)
(***************************************************************************)
Resources == {"context", "browser", "playwright"}

\* start() has four awaits; each can raise (or be cancelled) after the
\* earlier ones have assigned their attribute.
StartOutcomes ==
    {"ok", "driver_raises", "launch_raises", "context_raises", "script_raises"}

\* Lines 44-65: the attributes after start() ended with outcome o.
start(s, o) ==
    CASE o = "driver_raises" -> s
      [] o = "launch_raises" -> [s EXCEPT !.playwright = "open"]
      [] o = "context_raises" ->
            [s EXCEPT !.playwright = "open", !.browser = "open"]
      [] OTHER -> [playwright |-> "open", browser |-> "open", context |-> "open"]

\* close() / stop() on one resource either closes it or raises (the target
\* is gone, the connection is lost, the await is cancelled).
CloseOutcomes == {"closed", "raises"}

\* One `if self.x: await self.x.close()` of stop(); st carries the
\* attributes, whether an earlier close raised, and the closes asked for.
Close(st, r, o) ==
    IF st.raised \/ st.session[r] = "none" THEN st
    ELSE [session |-> IF o = "closed" THEN [st.session EXCEPT ![r] = "closed"]
                      ELSE st.session,
          raised |-> (o = "raises"),
          log |-> Append(st.log, r)]

\* Lines 67-73: stop(), with o[r] the outcome of closing resource r.
stop(s, o) ==
    Close(Close(Close([session |-> s, raised |-> FALSE, log |-> <<>>],
                      "context", o.context),
                "browser", o.browser),
          "playwright", o.playwright)

\* The release written after the try block, with no finally around it.
StopsOnlyOnNormalExit(close, path) == close /\ path \in {"normal", "novideos"}

\* Lines 502-504 (src/app.py 88-89): the finally block runs on every way
\* out of the try block and stops the scraper the function started itself.
FinallyStops(close, path) == close

\* The function returns after a normal or an early exit and re-raises
\* what left the try block otherwise.
ExitOf(path) == IF path \in {"normal", "novideos"} THEN "returned" ELSE "raised"

SessionInit ==
    /\ lpc = "entry"
    /\ caller \in {"scrape_and_save", "run_scraper"}
    /\ scraperArg \in IF caller = "scrape_and_save"
                      THEN {"none", "started", "unstarted"} ELSE {"none"}
    /\ close_scraper = FALSE
    /\ session = IF scraperArg = "started"
                 THEN start(NoSession, "ok") ELSE NoSession
    /\ starts = 0
    /\ stops = 0
    /\ exitPath = "none"
    /\ closeLog = <<>>

\* scrape_and_save lines 407-411: start() before the try block;
\* run_scraper lines 44-52: start() inside it.
Enter ==
    /\ lpc = "entry"
    /\ IF scraperArg # "none"
       THEN /\ lpc' = "search"
            /\ UNCHANGED <<close_scraper, session, starts, exitPath>>
       ELSE \E o \in StartOutcomes :
            /\ session' = start(session, o)
            /\ starts' = IF o = "ok" THEN starts + 1 ELSE starts
            /\ close_scraper' = (o = "ok" \/ caller = "run_scraper")
            /\ lpc' = CASE o = "ok" -> "search"
                        [] caller = "run_scraper" -> "finally"
                        [] OTHER -> "raised"
            /\ exitPath' = CASE o = "ok" -> exitPath
                             [] caller = "run_scraper" -> "exception"
                             [] OTHER -> "start_failed"
    /\ UNCHANGED <<caller, scraperArg, stops, closeLog>>
    /\ UNCHANGED <<dvars, jvars, svars, avars, fvars, xvars>>

SearchOutcomes == {"urls", "novideos", "exception", "cancelled"}

\* scrape_and_save lines 417-427 with search_videos lines 76-77 (the
\* backend scraper starts itself when it has no context); run_scraper
\* lines 55-61.
BodySearch ==
    /\ lpc = "search"
    /\ \E o \in (IF caller = "scrape_and_save" /\ session.context = "none"
                 THEN StartOutcomes ELSE {"skip"}) :
         /\ session' = IF o = "skip" THEN session ELSE start(session, o)
         /\ starts' = IF o = "ok" THEN starts + 1 ELSE starts
         /\ IF o \in {"skip", "ok"}
            THEN \E r \in SearchOutcomes :
                 /\ lpc' = IF r = "urls" THEN "loop" ELSE "finally"
                 /\ exitPath' = IF r = "urls" THEN exitPath ELSE r
            ELSE /\ lpc' = "finally"
                 /\ exitPath' = "exception"
    /\ UNCHANGED <<caller, scraperArg, close_scraper, stops, closeLog>>
    /\ UNCHANGED <<dvars, jvars, svars, avars, fvars, xvars>>

\* scrape_and_save lines 433-500, run_scraper lines 63-86: the candidate
\* loop ends normally, with an exception, or by cancellation at an await.
BodyLoop ==
    /\ lpc = "loop"
    /\ exitPath' \in {"normal", "exception", "cancelled"}
    /\ lpc' = "finally"
    /\ UNCHANGED <<caller, scraperArg, close_scraper, session, starts, stops,
                   closeLog>>
    /\ UNCHANGED <<dvars, jvars, svars, avars, fvars, xvars>>

\* The browser process dies while the run is using it.
BrowserCrash ==
    /\ lpc \in {"search", "loop"}
    /\ session.browser = "open"
    /\ session' = [session EXCEPT !.browser = "closed",
                      !.context = IF @ = "open" THEN "closed" ELSE @]
    /\ UNCHANGED <<lpc, caller, scraperArg, close_scraper, starts, stops,
                   exitPath, closeLog>>
    /\ UNCHANGED <<dvars, jvars, svars, avars, fvars, xvars>>

\* scrape_and_save lines 502-504, run_scraper lines 88-89.
Finally ==
    /\ lpc = "finally"
    /\ IF FinallyStops(close_scraper, exitPath)
       THEN \E o \in [Resources -> CloseOutcomes] :
            LET r == stop(session, o) IN
            /\ session' = r.session
            /\ closeLog' = r.log
            /\ stops' = stops + 1
            /\ lpc' = IF r.raised THEN "raised" ELSE ExitOf(exitPath)
       ELSE /\ lpc' = ExitOf(exitPath)
            /\ UNCHANGED <<session, closeLog, stops>>
    /\ UNCHANGED <<caller, scraperArg, close_scraper, starts, exitPath>>
    /\ UNCHANGED <<dvars, jvars, svars, avars, fvars, xvars>>

SessionNext ==
    \/ Enter
    \/ BodySearch
    \/ BodyLoop
    \/ BrowserCrash
    \/ Finally

SessionSpecInit ==
    SessionInit /\ DetailsIdle /\ JobIdle /\ SearchIdle /\ ApiIdle /\ FieldIdle /\ ExtraIdle

SessionSpec == SessionSpecInit /\ [][SessionNext]_vars

(***************************************************************************)
(* A scrape job over several keywords: scrape_job (src/backend/api.py) and *)
(* main (src/backend/run_scraper_job.py)                                   *)
(***************************************************************************)
VideoIds == 1..MaxIds

\* What search_videos can hand to one scrape_and_save call: distinct
\* videos in any order.
FoundLists ==
    UNION {{q \in [1..n -> VideoIds] : \A i, j \in 1..n : i # j => q[i] # q[j]} :
              n \in 0..MaxIds}

\* scrape_and_save lines 429-500 as a function of the candidates, of the
\* videos whose extraction fails and of the table: the summary, the table
\* afterwards and the ids newly inserted. A record's id stands for its
\* video.
RECURSIVE CandidateLoop(_, _, _)
CandidateLoop(found, fails, acc) ==
    IF found = <<>> THEN acc
    ELSE LET v == Head(found)
             kind == IF v \in acc.table THEN "existing"
                     ELSE IF v \in fails THEN "failed" ELSE "inserted"
             e == LoopEffect(kind, v)
         IN CandidateLoop(Tail(found), fails,
                [scraped |-> acc.scraped + e.scraped,
                 skipped |-> acc.skipped + e.skipped,
                 video_ids |-> acc.video_ids \o e.ids,
                 table |-> IF kind = "inserted" THEN acc.table \cup {v}
                           ELSE acc.table,
                 fresh |-> IF kind = "inserted" THEN acc.fresh \cup {v}
                           ELSE acc.fresh])

scrape_and_save(found, fails, tbl) ==
    CandidateLoop(found, fails,
                  [scraped |-> 0, skipped |-> 0, video_ids |-> <<>>,
                   table |-> tbl, fresh |-> {}])

\* str(e) of the exceptions the job can meet.
LaunchMessage == "browser launch failed"
PageMessage == "page crashed"
AnalyzerMessage == "client init failed"
ConnectMessage == "database unavailable"

\* The except branch that keeps no message.
OnExceptionSilent(msg) == [status |-> "failed", error |-> ""]

\* api.py lines 188-192: the except branch of scrape_job.
OnException(msg) == [status |-> "failed", error |-> msg]

\* run_scraper_job.py lines 63-69: the entry main() records for a keyword
\* whose scrape_and_save raised.
ErrorResult(msg) ==
    [error |-> msg, scraped |-> 0, skipped |-> 0, video_ids |-> <<>>]

OkResult(r) ==
    [error |-> "", scraped |-> r.scraped, skipped |-> r.skipped,
     video_ids |-> r.video_ids]

\* run_scraper_job.py lines 74-76.
RECURSIVE AllIds(_)
AllIds(rs) == IF rs = <<>> THEN <<>> ELSE Head(rs).video_ids \o AllIds(Tail(rs))

\* run_scraper_job.py lines 72-73: sum(r.get(field, 0) for r in results).
RECURSIVE SumOf(_, _)
SumOf(rs, field) ==
    IF rs = <<>> THEN 0 ELSE Head(rs)[field] + SumOf(Tail(rs), field)

\* run_scraper_job.py lines 72-83.
MainTotals(rs) ==
    [total_scraped |-> SumOf(rs, "scraped"),
     total_skipped |-> SumOf(rs, "skipped"),
     total_videos |-> Len(AllIds(rs))]

ApiInit ==
    /\ apc = "new"
    /\ runner \in {"api", "main"}
    /\ analyze \in IF runner = "api" THEN BOOLEAN ELSE {FALSE}
    /\ nkw \in 1..MaxKeywords
    /\ results = <<>>
    /\ all_video_ids = <<>>
    /\ status = "none"
    /\ error = ""
    /\ table \in {{}, {1}}
    /\ newIds = {}
    /\ analyzedLog = <<>>
    /\ launchFailed = 0
    /\ ai = 0
    /\ totals = NoTotals

\* api.py lines 296-310: scrape() registers the job as pending and starts
\* the thread; run_scraper_job.py lines 40-52: main() connects to the
\* database and returns a failed summary when that raises.
CreateJob ==
    /\ apc = "new"
    /\ IF runner = "api"
       THEN /\ status' = "pending"
            /\ apc' = "created"
            /\ UNCHANGED error
       ELSE \/ /\ apc' = "keywords"
               /\ UNCHANGED <<status, error>>
            \/ /\ apc' = "done"
               /\ status' = "failed"
               /\ error' = ConnectMessage
    /\ UNCHANGED <<runner, analyze, nkw, results, all_video_ids, table, newIds,
                   analyzedLog, launchFailed, ai>>
    /\ UNCHANGED totals
    /\ UNCHANGED <<dvars, jvars, svars, lvars, fvars, xvars>>

\* api.py lines 131-136.
StartJob ==
    /\ apc = "created"
    /\ status' = "running"
    /\ apc' = "keywords"
    /\ UNCHANGED <<runner, analyze, nkw, results, all_video_ids, error, table,
                   newIds, analyzedLog, launchFailed, ai>>
    /\ UNCHANGED totals
    /\ UNCHANGED <<dvars, jvars, svars, lvars, fvars, xvars>>

\* api.py lines 139-149 and 188-192, run_scraper_job.py lines 55-69: one
\* keyword. scrape_and_save raises when start() raises (scraper.py line
\* 410) or when the resolver or the cascade raises, and returns its
\* summary otherwise.
Keyword ==
    /\ apc = "keywords"
    /\ Len(results) < nkw
    /\ \/ \E msg \in {LaunchMessage, PageMessage} :
            /\ launchFailed' = IF msg = LaunchMessage /\ launchFailed = 0
                               THEN Len(results) + 1 ELSE launchFailed
            /\ IF runner = "api"
               THEN /\ status' = OnException(msg).status
                    /\ error' = OnException(msg).error
                    /\ apc' = "done"
                    /\ UNCHANGED results
               ELSE /\ results' = Append(results, ErrorResult(msg))
                    /\ UNCHANGED <<status, error, apc>>
            /\ UNCHANGED <<all_video_ids, table, newIds>>
       \/ \E found \in FoundLists, fails \in SUBSET VideoIds :
            LET r == scrape_and_save(found, fails, table) IN
            /\ results' = Append(results, OkResult(r))
            /\ all_video_ids' = IF runner = "api"
                                THEN all_video_ids \o r.video_ids
                                ELSE all_video_ids
            /\ table' = r.table
            /\ newIds' = newIds \cup r.fresh
            /\ UNCHANGED <<status, error, apc, launchFailed>>
    /\ UNCHANGED <<runner, analyze, nkw, analyzedLog, ai>>
    /\ UNCHANGED totals
    /\ UNCHANGED <<dvars, jvars, svars, lvars, fvars, xvars>>

\* api.py lines 151-154 and 176-184: after the keyword loop.
AfterKeywords ==
    /\ apc = "keywords"
    /\ runner = "api"
    /\ Len(results) = nkw
    /\ IF analyze /\ all_video_ids # <<>>
       THEN /\ status' = "analyzing"
            /\ apc' = "analyzer"
       ELSE /\ status' = "completed"
            /\ apc' = "done"
    /\ UNCHANGED <<runner, analyze, nkw, results, all_video_ids, error, table,
                   newIds, analyzedLog, launchFailed, ai>>
    /\ UNCHANGED totals
    /\ UNCHANGED <<dvars, jvars, svars, lvars, fvars, xvars>>

\* api.py lines 156-157: Analyzer() is built outside the per-video try.
MakeAnalyzer ==
    /\ apc = "analyzer"
    /\ \/ /\ apc' = "analyze"
          /\ ai' = 1
          /\ UNCHANGED <<status, error>>
       \/ /\ status' = OnException(AnalyzerMessage).status
          /\ error' = OnException(AnalyzerMessage).error
          /\ apc' = "done"
          /\ UNCHANGED ai
    /\ UNCHANGED <<runner, analyze, nkw, results, all_video_ids, table, newIds,
                   analyzedLog, launchFailed>>
    /\ UNCHANGED totals
    /\ UNCHANGED <<dvars, jvars, svars, lvars, fvars, xvars>>

\* api.py lines 159-172: one iteration of `for video_id in all_video_ids`;
\* the record is not found, or a call raises (caught), or analyze_video
\* and insert_sentiment both run.
AnalyzeOne ==
    /\ apc = "analyze"
    /\ ai <= Len(all_video_ids)
    /\ \E o \in {"analyzed", "novideo", "raises"} :
         analyzedLog' = IF o = "analyzed"
                        THEN Append(analyzedLog, all_video_ids[ai])
                        ELSE analyzedLog
    /\ ai' = ai + 1
    /\ UNCHANGED <<apc, runner, analyze, nkw, results, all_video_ids, status,
                   error, table, newIds, launchFailed>>
    /\ UNCHANGED totals
    /\ UNCHANGED <<dvars, jvars, svars, lvars, fvars, xvars>>

\* api.py lines 174-184.
Complete ==
    /\ apc = "analyze"
    /\ ai > Len(all_video_ids)
    /\ status' = "completed"
    /\ apc' = "done"
    /\ UNCHANGED <<runner, analyze, nkw, results, all_video_ids, error, table,
                   newIds, analyzedLog, launchFailed, ai>>
    /\ UNCHANGED totals
    /\ UNCHANGED <<dvars, jvars, svars, lvars, fvars, xvars>>

\* run_scraper_job.py lines 71-89.
MainFinish ==
    /\ apc = "keywords"
    /\ runner = "main"
    /\ Len(results) = nkw
    /\ all_video_ids' = AllIds(results)
    /\ totals' = MainTotals(results)
    /\ status' = "completed"
    /\ apc' = "done"
    /\ UNCHANGED <<runner, analyze, nkw, results, error, table, newIds,
                   analyzedLog, launchFailed, ai>>
    /\ UNCHANGED <<dvars, jvars, svars, lvars, fvars, xvars>>

ApiNext ==
    \/ CreateJob
    \/ StartJob
    \/ Keyword
    \/ AfterKeywords
    \/ MakeAnalyzer
    \/ AnalyzeOne
    \/ Complete
    \/ MainFinish

ApiSpecInit ==
    ApiInit /\ DetailsIdle /\ JobIdle /\ SearchIdle /\ SessionIdle /\ FieldIdle /\ ExtraIdle

ApiSpec == ApiSpecInit /\ [][ApiNext]_vars

(***************************************************************************)
(* From one page to the stored values: the description fallback and the   *)
(* engagement counters of the video record                                 *)
(***************************************************************************)
CounterNames == {"views", "likes", "shares", "comments"}

\* isinstance(v, int): the JSON numbers; a missing key gives None, the DOM
\* gives display strings.
IsInt(c) == c \in {"0", "7"}

\* scrape_and_save lines 462-465:
\* int(stats.get(k, 0)) if isinstance(stats.get(k), int) else 0
CountColumn(c) == IF IsInt(c) THEN c ELSE "0"

\* scrape_and_save lines 457-469, the four counters of video_record.
video_record(d) ==
    [views |-> CountColumn(d.stats.views), likes |-> CountColumn(d.stats.likes),
     shares |-> CountColumn(d.stats.shares),
     comments |-> CountColumn(d.stats.comments)]

\* A page as far as its counters go: an embedded-state item with a stats
\* object, or no embedded state and the two count elements of the DOM.
CounterPages ==
    {[kind |-> "json", st |-> x, likes |-> "none", comments |-> "none"] :
        x \in [playCount : {"absent", "0", "7"}, diggCount : {"absent", "0"},
               shareCount : {"7"}, commentCount : {"7"}]}
    \cup {[kind |-> "dom", st |-> NoStats, likes |-> l, comments |-> c] :
             l \in {"none", "0", "1.2K"}, c \in {"none", "0"}}

NoScript == [kind |-> "nomatch", item |-> NoItem]

\* scrape_video_details on the page, then the record scrape_and_save
\* hands to insert_video.
StoredCounters(page) ==
    LET sigi == IF page.kind = "json"
                THEN [kind |-> "item",
                      item |-> [NoItem EXCEPT !.stats = [kind |-> "dict",
                                                         d |-> page.st]]]
                ELSE NoScript
        d1 == PrimaryJson(EmptyData, sigi).data
        d2 == SecondaryJson(d1, NoScript).data
    IN video_record(DomStats(d2, page.likes, page.comments))

\* The description of a page with neither embedded-state script.
DescriptionOf(dom) ==
    LET d1 == PrimaryJson(EmptyData, NoScript).data
        d2 == SecondaryJson(d1, NoScript).data
    IN DomDescription(d2, dom).description

FieldInit ==
    /\ fpc = "input"
    /\ fin \in {[fn |-> "description", dom |-> x] : x \in DomIn}
              \cup {[fn |-> "counters", a |-> x, b |-> y] :
                       x \in CounterPages, y \in CounterPages}
    /\ fout = <<>>

\* scrape_video_details lines 249-323 on a page without embedded state.
DescribeFromDom ==
    /\ fpc = "input"
    /\ fin.fn = "description"
    /\ fout' = DescriptionOf(fin.dom)
    /\ fpc' = "done"
    /\ UNCHANGED fin
    /\ UNCHANGED <<dvars, jvars, svars, lvars, avars, xvars>>

\* Two pages scraped and prepared for insert_video.
BuildRecords ==
    /\ fpc = "input"
    /\ fin.fn = "counters"
    /\ fout' = [a |-> StoredCounters(fin.a), b |-> StoredCounters(fin.b)]
    /\ fpc' = "done"
    /\ UNCHANGED fin
    /\ UNCHANGED <<dvars, jvars, svars, lvars, avars, xvars>>

FieldNext ==
    \/ DescribeFromDom
    \/ BuildRecords

FieldSpecInit ==
    FieldInit /\ DetailsIdle /\ JobIdle /\ SearchIdle /\ SessionIdle /\ ApiIdle /\ ExtraIdle

FieldSpec == FieldSpecInit /\ [][FieldNext]_vars

(***************************************************************************)
(* Claims about scrape_video_details                                       *)
(***************************************************************************)
CascadeFields == {"description", "author", "stats", "thumbnail", "hashtags"}
StringFields == {"description", "author", "thumbnail"}

\* C1: when the challenge test is positive on every one of the
\* max_retries + 1 attempts, the call returns None and no extraction
\* strategy has run.
C1_ChallengeOnEveryAttemptFails ==
    (pc = "returned" /\ everyChallenged /\ gotoCount = max_retries + 1)
        => (ret = "None" /\ ran = <<>>)

\* C2: page.goto is called at most max_retries + 1 times whatever the page
\* does on each attempt, and the retry loop always terminates.
C2_BoundedNavigation ==
    /\ [](gotoCount <= max_retries + 1)
    /\ (pc = "loop" ~> pc # "loop")

C2_Witness ==
    pc = "json" /\ everyChallenged /\ gotoCount = max_retries + 1

\* C3 as stated: once a strategy has stored one of the cascade fields in
\* the record, no later strategy changes it.
C3_StoredFieldNeverChanges ==
    [][pc \notin {"call", "loop", "json"} =>
          \A f \in CascadeFields :
              HasKey(data, f) => (HasKey(data', f) /\ data'[f] = data[f])]_vars

\* C3 amended: once a strategy has stored a non-empty description, author
\* or thumbnail, or has stored stats or hashtags at all, no later strategy
\* changes that field.
C3_FirstWriterWins ==
    [][pc \notin {"call", "loop", "json"} =>
          /\ \A f \in StringFields :
                (HasKey(data, f) /\ data[f] # <<>>) => data'[f] = data[f]
          /\ \A f \in CascadeFields \ StringFields :
                HasKey(data, f) => data'[f] = data[f]
          /\ data.keys \subseteq data'.keys]_vars

\* The primary JSON stored description "A" and the DOM description
\* fallback has run after it.
C3_Witness ==
    /\ pc = "dom_thumbnail"
    /\ ran = <<"primary", "dom">>
    /\ data.description = <<"A">>

\* C10: the comment list never holds more than CommentCap entries.
C10_CommentCap == Len(data.comments) <= CommentCap

\* A page with more candidate elements than the cap was harvested.
C10_Witness ==
    /\ ret = "data"
    /\ elemCount > CommentCap
    /\ Len(data.comments) = CommentCap

(***************************************************************************)
(* Claims about scrape_and_save                                            *)
(***************************************************************************)
Kinds == {log[i].kind : i \in 1..Len(log)}
Count(K) == Cardinality({i \in 1..Len(log) : log[i].kind \in K})
InLoopOrReturned == jpc \in {"loop", "returned"} /\ video_urls # <<>>

\* C4: a candidate whose external ID the table already holds is skipped,
\* with no scrape_video_details and no insert_video call for it, so the
\* table never holds one tiktok_id twice.
C4_KnownIdIsSkipped ==
    /\ \A i \in 1..Len(log) : log[i].stored # 0 => log[i].kind = "existing"
    /\ \A i, j \in 1..Len(db) : i # j => db[i].tiktok_id # db[j].tiktok_id

\* C5: the returned summary satisfies scraped + skipped <= found.
C5_ScrapedPlusSkippedAtMostFound ==
    /\ jpc = "returned" => summary.scraped + summary.skipped <= summary.found
    /\ InLoopOrReturned => scraped_count + skipped_count <= Len(log)

\* A returned run that met an already-known, an inserted and a rejected
\* candidate.
C5_Witness ==
    /\ jpc = "returned"
    /\ {"existing", "inserted", "rejected"} \subseteq Kinds
    /\ summary.scraped + summary.skipped < summary.found

\* The identifiers C6 expects for the candidates processed so far: the
\* stored row's id for a candidate the table already held, the new id for
\* a newly inserted one, none for the others.
RECURSIVE ExpectedIds(_)
ExpectedIds(l) ==
    IF l = <<>> THEN <<>>
    ELSE LET e == l[Len(l)] IN
         ExpectedIds(SubSeq(l, 1, Len(l) - 1))
         \o (IF e.stored # 0 THEN <<e.stored>>
             ELSE IF e.kind = "inserted" THEN <<e.id>> ELSE <<>>)

\* The run of the concrete scenario: candidates 111, 222, 333, only 222
\* stored before, extraction and insert succeeding for 111 and 333.
Scenario ==
    /\ jpc = "returned" /\ ~secondRun
    /\ video_urls = <<U111, U222, U333>>
    /\ Len(log) = 3
    /\ log[1].stored = 0 /\ log[2].stored = 1 /\ log[3].stored = 0
    /\ log[1].kind = "inserted" /\ log[3].kind = "inserted"

\* C6: video_ids follows candidate order with exactly one identifier per
\* already-stored or newly inserted candidate, and the scenario's summary
\* is {found 3, scraped 2, skipped 1, video_ids [id(111), id of 222, id(333)]}.
C6_VideoIdsPerCandidate ==
    /\ InLoopOrReturned => video_ids = ExpectedIds(log)
    /\ Scenario =>
         summary = [found |-> 3, scraped |-> 2, skipped |-> 1,
                    video_ids |-> <<log[1].id, 1, log[3].id>>]

\* C7 as stated: skipped counts the already-known and the failed candidates.
C7_SkippedCountsKnownAndFailed ==
    InLoopOrReturned => skipped_count = Count({"existing", "failed"})

\* C7 amended: skipped counts exactly the candidates the existence check
\* found; a candidate whose extraction failed is counted neither as
\* skipped nor as scraped.
C7_SkippedCountsKnownOnly ==
    /\ InLoopOrReturned =>
         /\ skipped_count = Count({"existing"})
         /\ scraped_count = Count({"inserted"})
    /\ (jpc = "returned" /\ video_urls # <<>>) =>
         /\ summary.skipped = Count({"existing"})
         /\ summary.scraped = Count({"inserted"})

\* A returned run with a failed and an already-known candidate.
C7_Witness ==
    /\ jpc = "returned"
    /\ {"existing", "failed"} \subseteq Kinds
    /\ summary.skipped = 1

\* C8: a None from scrape_video_details neither raises nor stops the run:
\* a returned run has processed every candidate in order, and a run only
\* raises from search_videos or from an exception of scrape_video_details.
C8_FailedUrlDoesNotStopRun ==
    /\ (jpc = "returned" /\ video_urls # <<>>) =>
         /\ Len(log) = Len(video_urls)
         /\ \A i \in 1..Len(log) : log[i].url = video_urls[i]
    /\ jpc = "raised" => (log = <<>> \/ log[Len(log)].kind = "exception")

\* A returned run whose first candidate failed and whose later candidates
\* were still processed.
C8_Witness ==
    /\ jpc = "returned"
    /\ Len(log) >= 3
    /\ log[1].kind = "failed"
    /\ log[Len(log)].kind = "inserted"

(***************************************************************************)
(* Claims about search_videos                                              *)
(***************************************************************************)
\* C9: no search_videos returns an empty list without having navigated to
\* the hashtag URL built from the keyword with its spaces removed.
C9_EmptyOnlyAfterFallback ==
    (spc = "returned" /\ sret = <<>>) => TagUrl(keyword) \in Range(navigated)

(***************************************************************************)
(* Claims about the browser session                                        *)
(***************************************************************************)
SessionDone == lpc \in {"returned", "raised"}

CloseRank(r) == CASE r = "context" -> 1 [] r = "browser" -> 2 [] OTHER -> 3

\* C17: stop() asks the context, the browser and the driver to close, in
\* that order, and a close that fails or finds its resource already closed
\* does not keep the later resources from being closed.
C17_StopClosesEveryResource ==
    (SessionDone /\ stops = 1) =>
        /\ \A i, j \in 1..Len(closeLog) :
              i < j => CloseRank(closeLog[i]) < CloseRank(closeLog[j])
        /\ \A r \in Resources :
              session[r] # "none" => \E i \in 1..Len(closeLog) : closeLog[i] = r

(***************************************************************************)
(* Claims about the job over several keywords                              *)
(***************************************************************************)
\* C12: when start() raises inside scrape_and_save, the whole job is
\* aborted: its final status is "failed" with the exception's message and
\* no later keyword is processed, for scrape_job and for main alike.
C12_LaunchFailureAbortsJob ==
    (apc = "done" /\ launchFailed # 0) =>
        /\ status = "failed"
        /\ error = LaunchMessage
        /\ Len(results) <= launchFailed

StatusSteps ==
    {<<"none", "pending">>, <<"pending", "running">>,
     <<"running", "analyzing">>, <<"running", "completed">>,
     <<"running", "failed">>, <<"analyzing", "completed">>,
     <<"analyzing", "failed">>}

C18_AnalysisOncePerScrapedRecord ==
    (apc = "done" /\ status = "completed" /\ analyze) =>
        /\ \A i \in 1..Len(analyzedLog) : analyzedLog[i] \in newIds
        /\ \A i, j \in 1..Len(analyzedLog) :
              i # j => analyzedLog[i] # analyzedLog[j]

(***************************************************************************)
(* Claims about the stored values                                          *)
(***************************************************************************)
\* The source of counter c on a page: the key of the JSON stats object, or
\* the DOM count element.
CounterSource(page, c) ==
    IF page.kind = "json"
    THEN CASE c = "views" -> page.st.playCount
           [] c = "likes" -> page.st.diggCount
           [] c = "shares" -> page.st.shareCount
           [] OTHER -> page.st.commentCount
    ELSE CASE c = "likes" -> page.likes
           [] c = "comments" -> page.comments
           [] OTHER -> "none"

\* Pages a and b differ only in counter c, missing on a and 0 on b.
AbsentVersusZero(a, b, c) ==
    /\ a.kind = b.kind
    /\ CounterSource(a, c) \in {"absent", "none"}
    /\ CounterSource(b, c) = "0"
    /\ \A o \in CounterNames \ {c} : CounterSource(a, o) = CounterSource(b, o)

\* C14: two pages that differ only in one counter being absent on the one
\* and 0 on the other lead to different stored values for that counter.
C14_UnavailableDiffersFromZero ==
    (fpc = "done" /\ fin.fn = "counters") =>
        \A c \in CounterNames :
            AbsentVersusZero(fin.a, fin.b, c) => fout.a[c] # fout.b[c]

\* s with one trailing t removed.
StripTrailing(s, t) ==
    IF s # <<>> /\ s[Len(s)] = t THEN SubSeq(s, 1, Len(s) - 1) ELSE s

\* C19: with neither embedded-state JSON present and a meta description
\* on the page (one that has text before its suffix), the description is
\* the meta content with its trailing " on TikTok" removed and the rest of
\* the text unchanged.
C19_MetaDescriptionSuffixStripped ==
    (/\ fpc = "done" /\ fin.fn = "description"
     /\ fin.dom.meta.kind = "el"
     /\ StripTrailing(fin.dom.meta.v, ON_TIKTOK) # <<>>) =>
        fout = StripTrailing(fin.dom.meta.v, ON_TIKTOK)

(***************************************************************************)
(* More claims about search_videos and scrape_video_details                *)
(***************************************************************************)
\* C15: search_videos terminates for every page content, also when the
\* page exposes fewer distinct video links than the limit, in both files.
C15_SearchTerminates ==
    (spc = "open") ~> (spc \in {"returned", "raised"})

Distinct(q) == \A i, j \in 1..Len(q) : i # j => q[i] # q[j]

C20_NoExceptionEscapes ==
    ~(pc = "raised" /\ pageOpen)

(***************************************************************************)
(* Two scrape jobs at once: POST /scrape starts one thread per job         *)
(* (src/backend/api.py lines 112-126, 296-310), each running               *)
(* scrape_and_save against the same videos table through the module-level  *)
(* client `db`. One step per database call or page visit; the scheduler    *)
(* may switch threads between any two of them.                             *)
(***************************************************************************)
\* The candidate lists of a job, as external ids.
CandidateLists == {<<"111">>, <<"111", "222">>, <<"222", "111">>}

ConcInit ==
    /\ tpc = [j \in Jobs |-> "check"]
    /\ tcands \in [Jobs -> CandidateLists]
    /\ tpos = [j \in Jobs |-> 1]
    /\ shared \in {<<>>, <<[id |-> 1, tiktok_id |-> "222"]>>}
    /\ tcalls = [j \in Jobs |-> <<>>]

\* The for loop moves to the next candidate, or is over.
NextCandidate(j) ==
    /\ tpos' = [tpos EXCEPT ![j] = tpos[j] + 1]
    /\ tpc' = [tpc EXCEPT ![j] = IF tpos[j] + 1 > Len(tcands[j]) THEN "done" ELSE "check"]

\* scraper.py lines 441-446: the existence check of job j.
CheckExisting(j) ==
    /\ tpc[j] = "check"
    /\ \E lookupOk \in BOOLEAN :
         IF get_video_by_tiktok_id(shared, tcands[j][tpos[j]], lookupOk) # NoRow
         THEN NextCandidate(j)
         ELSE /\ tpc' = [tpc EXCEPT ![j] = "scrape"]
              /\ UNCHANGED tpos
    /\ UNCHANGED <<tcands, shared, tcalls>>
    /\ UNCHANGED <<dvars, jvars, svars, lvars, avars, fvars, mvars, hvars>>

\* scraper.py lines 450-454: the page visit of job j, seconds long.
ScrapeDetails(j) ==
    /\ tpc[j] = "scrape"
    /\ \/ /\ tpc' = [tpc EXCEPT ![j] = "insert"]
          /\ UNCHANGED tpos
       \/ NextCandidate(j)
    /\ UNCHANGED <<tcands, shared, tcalls>>
    /\ UNCHANGED <<dvars, jvars, svars, lvars, avars, fvars, mvars, hvars>>

\* scraper.py lines 472-492: insert_video of job j.
InsertVideo(j) ==
    /\ tpc[j] = "insert"
    /\ tcalls' = [tcalls EXCEPT ![j] = Append(@, tcands[j][tpos[j]])]
    /\ \E insertOk \in BOOLEAN :
         shared' = insert_video(shared, tcands[j][tpos[j]], insertOk).rows
    /\ NextCandidate(j)
    /\ UNCHANGED tcands
    /\ UNCHANGED <<dvars, jvars, svars, lvars, avars, fvars, mvars, hvars>>

ConcNext ==
    \/ \E j \in Jobs : CheckExisting(j)
    \/ \E j \in Jobs : ScrapeDetails(j)
    \/ \E j \in Jobs : InsertVideo(j)

ConcSpecInit ==
    ConcInit /\ DetailsIdle /\ JobIdle /\ SearchIdle /\ SessionIdle /\ ApiIdle /\ FieldIdle
    /\ DismissIdle /\ ChatIdle

ConcSpec == ConcSpecInit /\ [][ConcNext]_vars

\* The jobs that called insert_video with the external id tid.
InsertersOf(tid) == {j \in Jobs : \E i \in 1..Len(tcalls[j]) : tcalls[j][i] = tid}

\* C21: of two concurrent scrape jobs whose candidate lists share an
\* external id, at most one calls insert_video for that id: no
\* interleaving lets both see the video as absent and both insert it.
C21_OneJobInsertsSharedId ==
    \A tid \in {"111", "222"} : Cardinality(InsertersOf(tid)) <= 1

(***************************************************************************)
(* The order of the extraction strategies                                  *)
(***************************************************************************)
StrategyOrders ==
    {<<>>, <<"primary">>, <<"primary", "secondary">>, <<"primary", "dom">>,
     <<"primary", "secondary", "dom">>}

\* C22: the strategies run in the order primary JSON, secondary JSON,
\* DOM/meta fallback, and the secondary JSON is attempted exactly when the
\* description is still unset after the primary strategy, in particular
\* when the primary JSON item carried no description.
C22_SecondaryIffDescriptionUnset ==
    [][/\ ran' \in StrategyOrders
       /\ (pc \in {"json", "univ"} /\ pc' = "dom_description")
            => LET afterPrimary == IF pc = "json" THEN data' ELSE data IN
               ("secondary" \in Range(ran')) <=> Falsy(afterPrimary, "description")
      ]_vars

(***************************************************************************)
(* The interstitial dismissal (src/backend/scraper.py lines 86-116 in      *)
(* search_videos, lines 193-216 in the retry loop of                       *)
(* scrape_video_details): one try block around the key press, the loop     *)
(* over close_selectors and the click outside; one step per page call.     *)
(***************************************************************************)
\* len(close_selectors), lines 96-103 and 201-208.
NumSelectors == 6

Call(step, sel) == [step |-> step, sel |-> sel]

DismissInit ==
    /\ mpc = "escape"
    /\ mwhere \in {"search", "details"}
    /\ msel = 1
    /\ mlog = <<>>
    /\ mswallowed = FALSE

\* A page call of the block that raises ends the block: control goes to its
\* except clause (lines 115-116, 216) and from there to the statement after.
\* Lines 92, 197: page.keyboard.press("Escape").
DismissEscape ==
    /\ mpc = "escape"
    /\ mlog' = Append(mlog, Call("escape", 0))
    /\ \/ /\ mpc' = "selectors"
          /\ UNCHANGED mswallowed
       \/ /\ mpc' = "after"
          /\ mswallowed' = TRUE
    /\ UNCHANGED <<mwhere, msel>>
    /\ UNCHANGED <<dvars, jvars, svars, lvars, avars, fvars, cvars, hvars>>

\* Lines 105-109, 209-212: one iteration of the loop over close_selectors:
\* is_visible, and a click when it answers true. There is no break: the
\* loop goes on after a click.
DismissSelector ==
    /\ mpc = "selectors"
    /\ msel <= NumSelectors
    /\ \E visible \in BOOLEAN, clickRaises \in BOOLEAN :
         /\ clickRaises => visible
         /\ mlog' = IF visible THEN Append(mlog, Call("click", msel)) ELSE mlog
         /\ IF clickRaises
            THEN /\ mswallowed' = TRUE
                 /\ mpc' = "after"
                 /\ UNCHANGED msel
            ELSE /\ msel' = msel + 1
                 /\ UNCHANGED <<mpc, mswallowed>>
    /\ UNCHANGED mwhere
    /\ UNCHANGED <<dvars, jvars, svars, lvars, avars, fvars, cvars, hvars>>

\* Lines 113, 215: page.mouse.click(10, 10), the last statement of the try.
DismissOutside ==
    /\ mpc = "selectors"
    /\ msel > NumSelectors
    /\ mlog' = Append(mlog, Call("outside", 0))
    /\ mpc' = "after"
    /\ \/ UNCHANGED mswallowed
       \/ mswallowed' = TRUE
    /\ UNCHANGED <<mwhere, msel>>
    /\ UNCHANGED <<dvars, jvars, svars, lvars, avars, fvars, cvars, hvars>>

\* Lines 118, 219: the statement after the block runs, whatever happened
\* inside the block.
DismissResume ==
    /\ mpc = "after"
    /\ mpc' = "resumed"
    /\ UNCHANGED <<mwhere, msel, mlog, mswallowed>>
    /\ UNCHANGED <<dvars, jvars, svars, lvars, avars, fvars, cvars, hvars>>

DismissNext ==
    \/ DismissEscape
    \/ DismissSelector
    \/ DismissOutside
    \/ DismissResume

DismissSpecInit ==
    DismissInit /\ DetailsIdle /\ JobIdle /\ SearchIdle /\ SessionIdle /\ ApiIdle
    /\ FieldIdle /\ ConcIdle /\ ChatIdle

DismissSpec == DismissSpecInit /\ [][DismissNext]_vars

Attempted(step) == \E i \in 1..Len(mlog) : mlog[i].step = step

\* C23: every step of the dismissal sequence is best-effort: a failure in
\* one step is swallowed and the following steps are still attempted, so
\* the click on the outside coordinate is attempted in every dismissal
\* sequence, and the search or scrape attempt around it goes on.
C23_OutsideClickAlwaysAttempted ==
    mpc \in {"after", "resumed"} => (Attempted("escape") /\ Attempted("outside"))

(***************************************************************************)
(* When search_videos raises                                               *)
(***************************************************************************)
\* C24: when no page yields a video link and the initial navigation
\* succeeded, search_videos takes the diagnostic screenshot and returns
\* the empty list without raising; it raises only when the initial
\* navigation to the search page fails.
C24_RaisesOnlyOnInitialNavigation ==
    [][variant = "backend" =>
         /\ (spc = "finish" /\ video_links = <<>>)
              => (spc' = "returned" /\ sret' = <<>> /\ shot')
         /\ (spc # "raised" /\ spc' = "raised") => spc = "open"
      ]_vars

(***************************************************************************)
(* Pages and comment inserts of one scrape_and_save run                    *)
(***************************************************************************)
\* C25: within one session pages are used one at a time: at every moment
\* of a scrape_and_save run at most one page of the context is open; the
\* search page is closed before the first detail page is opened and each
\* detail page is closed before the next URL is processed, also for URLs
\* that end in Failed.
C25_OnePageAtATime ==
    /\ pages <= 1
    /\ pagesPeak <= 1
    /\ jpc = "loop" => pages = 0

\* A candidate ended in Failed, the next one was visited and stored.
C25_Witness ==
    /\ Len(log) >= 2
    /\ log[1].kind = "failed"
    /\ log[2].kind = "inserted"
    /\ pagesPeak = 1

KindsLogged == {log[k].kind : k \in 1..Len(log)}

DB_RETRY_ATTEMPTS == 3
DB_RETRY_DELAY == 2
CHAT_SESSION_TIMEOUT == 3600

MaxHistory == 2
MaxChats == 3
MaxTicks == 2

\* The steps the clock makes between two calls: a little more than the
\* timeout, and a little more than a day.
TickSizes == {CHAT_SESSION_TIMEOUT + 1, 86400 + 10}

ChatInit ==
    /\ hpc = "connect"
    /\ cattempt = 0
    /\ outcomes = <<>>
    /\ sleeps = <<>>
    /\ cclient = "none"
    /\ hasClient = FALSE
    /\ MAX_CHAT_HISTORY_LENGTH \in 1..MaxHistory
    /\ now = 0
    /\ ticks = 0
    /\ sessions = [sid \in SessionIds |-> NoChatSession]
    /\ serial = 0
    /\ last = NoCall

\* The same delay before every retry.
BackoffConstant(a) == DB_RETRY_DELAY

\* database.py line 38: DB_RETRY_DELAY * (2 ** attempt).
Backoff(a) == DB_RETRY_DELAY * (2 ^ a)

\* database.py lines 27-40: one iteration of the for loop.
ConnectAttempt ==
    /\ hpc = "connect"
    /\ cattempt < DB_RETRY_ATTEMPTS
    /\ \E o \in {"ok", "raises"} :
         /\ outcomes' = Append(outcomes, o)
         /\ IF o = "ok"
            THEN /\ cclient' = "client"
                 /\ hpc' = "connected"
                 /\ UNCHANGED <<cattempt, sleeps>>
            ELSE IF cattempt < DB_RETRY_ATTEMPTS - 1
                 THEN /\ sleeps' = Append(sleeps, Backoff(cattempt))
                      /\ cattempt' = cattempt + 1
                      /\ UNCHANGED <<cclient, hpc>>
                 ELSE /\ hpc' = "failed"
                      /\ UNCHANGED <<cclient, cattempt, sleeps>>
    /\ UNCHANGED <<hasClient, MAX_CHAT_HISTORY_LENGTH, now, ticks, sessions, serial, last>>
    /\ UNCHANGED <<dvars, jvars, svars, lvars, avars, fvars, cvars, mvars>>

\* api.py lines 55-72: the chat service exists only with a database
\* client; its Mistral client only with an API key (mistral_chat.py 25-30).
BuildService ==
    /\ hpc \in {"connected", "failed"}
    /\ IF hpc = "connected"
       THEN /\ hpc' = "serving"
            /\ hasClient' \in BOOLEAN
       ELSE /\ hpc' = "down"
            /\ UNCHANGED hasClient
    /\ UNCHANGED <<cattempt, outcomes, sleeps, cclient, MAX_CHAT_HISTORY_LENGTH, now,
                   ticks, sessions, serial, last>>
    /\ UNCHANGED <<dvars, jvars, svars, lvars, avars, fvars, cvars, mvars>>

\* Time passes between two requests.
Tick ==
    /\ hpc = "serving"
    /\ ticks < MaxTicks
    /\ \E d \in TickSizes : now' = now + d
    /\ ticks' = ticks + 1
    /\ UNCHANGED <<hpc, cattempt, outcomes, sleeps, cclient, hasClient,
                   MAX_CHAT_HISTORY_LENGTH, sessions, serial, last>>
    /\ UNCHANGED <<dvars, jvars, svars, lvars, avars, fvars, cvars, mvars>>

\* timedelta.seconds of a non-negative timedelta of d seconds: the seconds
\* within the last day, the whole days being held in timedelta.days.
Seconds(d) == d % 86400

\* mistral_chat.py line 41.
Expired(sess, t) ==
    sess.present /\ Seconds(t - sess.last_activity) > CHAT_SESSION_TIMEOUT

\* mistral_chat.py lines 36-45.
clean_expired_sessions(S, t) ==
    [sid \in SessionIds |-> IF Expired(S[sid], t) THEN NoChatSession ELSE S[sid]]

\* mistral_chat.py lines 47-61: the sessions afterwards; the session
\* returned is the entry of session_id.
get_session(S, session_id, t) ==
    LET C == clean_expired_sessions(S, t) IN
    [C EXCEPT ![session_id] =
        IF ~C[session_id].present
        THEN [present |-> TRUE, history |-> <<>>, last_activity |-> t]
        ELSE [@ EXCEPT !.last_activity = t]]

\* The Python slice h[-n:].
LastN(h, n) ==
    IF n = 0 \/ n >= Len(h) THEN h ELSE SubSeq(h, Len(h) - n + 1, Len(h))

\* The bound taken as a number of messages instead of pairs.
BoundedToLength(h, max) == IF Len(h) > max THEN LastN(h, max) ELSE h

\* mistral_chat.py lines 297-298.
Bounded(h, max) == IF Len(h) > max * 2 THEN LastN(h, max * 2) ELSE h

\* mistral_chat.py lines 293-294; n stands for the two contents.
WithExchange(h, n) ==
    h \o <<[role |-> "user", n |-> n], [role |-> "assistant", n |-> n]>>

\* The idle time of a stored session, -1 for none.
IdleOf(sess, t) == IF sess.present THEN t - sess.last_activity ELSE -1

\* mistral_chat.py lines 197-315: chat(session_id, ...). Without a client
\* it returns at line 220; otherwise everything up to the model's answer
\* may raise (lines 228-290), which the except clause turns into the
\* processing_error result.
Chat ==
    /\ hpc = "serving"
    /\ serial < MaxChats
    /\ serial' = serial + 1
    /\ \E sid \in SessionIds :
         LET before == sessions[sid] IN
         IF ~hasClient
         THEN /\ last' = [op |-> "chat", sid |-> sid, idle |-> IdleOf(before, now),
                          before |-> before.history, out |-> <<>>,
                          failed |-> TRUE, message_count |-> 0]
              /\ UNCHANGED sessions
         ELSE LET S == get_session(sessions, sid, now)
                  sent == LastN(S[sid].history, MAX_CHAT_HISTORY_LENGTH)
              IN
              \/ /\ sessions' = S
                 /\ last' = [op |-> "chat", sid |-> sid, idle |-> IdleOf(before, now),
                             before |-> before.history, out |-> <<>>,
                             failed |-> TRUE, message_count |-> 0]
              \/ LET h == Bounded(WithExchange(S[sid].history, serial + 1),
                                  MAX_CHAT_HISTORY_LENGTH)
                 IN
                 /\ sessions' = [S EXCEPT ![sid].history = h]
                 /\ last' = [op |-> "chat", sid |-> sid, idle |-> IdleOf(before, now),
                             before |-> before.history, out |-> sent,
                             failed |-> FALSE, message_count |-> Len(h) \div 2]
    /\ UNCHANGED <<hpc, cattempt, outcomes, sleeps, cclient, hasClient,
                   MAX_CHAT_HISTORY_LENGTH, now, ticks>>
    /\ UNCHANGED <<dvars, jvars, svars, lvars, avars, fvars, cvars, mvars>>

\* mistral_chat.py lines 317-320.
GetConversationHistory ==
    /\ hpc = "serving"
    /\ \E sid \in SessionIds :
         LET S == get_session(sessions, sid, now) IN
         /\ sessions' = S
         /\ last' = [op |-> "history", sid |-> sid,
                     idle |-> IdleOf(sessions[sid], now),
                     before |-> sessions[sid].history, out |-> S[sid].history,
                     failed |-> FALSE, message_count |-> 0]
    /\ UNCHANGED <<hpc, cattempt, outcomes, sleeps, cclient, hasClient,
                   MAX_CHAT_HISTORY_LENGTH, now, ticks, serial>>
    /\ UNCHANGED <<dvars, jvars, svars, lvars, avars, fvars, cvars, mvars>>

\* mistral_chat.py lines 322-328.
ClearSession ==
    /\ hpc = "serving"
    /\ \E sid \in SessionIds :
         /\ sessions[sid].present
         /\ sessions' = [sessions EXCEPT ![sid] = NoChatSession]
         /\ last' = [op |-> "clear", sid |-> sid,
                     idle |-> IdleOf(sessions[sid], now),
                     before |-> sessions[sid].history, out |-> <<>>,
                     failed |-> FALSE, message_count |-> 0]
    /\ UNCHANGED <<hpc, cattempt, outcomes, sleeps, cclient, hasClient,
                   MAX_CHAT_HISTORY_LENGTH, now, ticks, serial>>
    /\ UNCHANGED <<dvars, jvars, svars, lvars, avars, fvars, cvars, mvars>>

ChatNext ==
    \/ ConnectAttempt
    \/ BuildService
    \/ Tick
    \/ Chat
    \/ GetConversationHistory
    \/ ClearSession

ChatSpecInit ==
    ChatInit /\ DetailsIdle /\ JobIdle /\ SearchIdle /\ SessionIdle /\ ApiIdle
    /\ FieldIdle /\ ConcIdle /\ DismissIdle

ChatSpec == ChatSpecInit /\ [][ChatNext]_vars

(***************************************************************************)
(* Properties of the service process                                       *)
(***************************************************************************)
\* The step is a call that goes through _get_session.
CallsGetSession ==
    /\ hpc = "serving"
    /\ ticks' = ticks
    /\ last'.op \in {"chat", "history"}
    /\ hasClient \/ last'.op = "history"

\* C26: a session whose idle time (now minus last_activity) exceeds
\* CHAT_SESSION_TIMEOUT seconds is removed by the sweep of the next
\* _get_session call, whatever the idle time, days included; its earlier
\* history is neither returned nor sent to the model after that.
C26_IdleSessionsAreSwept ==
    [][CallsGetSession =>
         \A sid \in SessionIds :
            (sessions[sid].present
               /\ now - sessions[sid].last_activity > CHAT_SESSION_TIMEOUT)
              => IF sid = last'.sid
                 THEN /\ last'.out = <<>>
                      /\ sessions'[sid].history
                           \in {<<>>, WithExchange(<<>>, serial')}
                 ELSE ~sessions'[sid].present
      ]_vars

\* h is made of user/assistant pairs, oldest first, at most max of them.
WellFormed(h, max) ==
    /\ Len(h) % 2 = 0
    /\ Len(h) <= 2 * max
    /\ \A i \in 1..(Len(h) \div 2) :
         /\ h[2 * i - 1].role = "user"
         /\ h[2 * i].role = "assistant"
         /\ h[2 * i - 1].n = h[2 * i].n
         /\ i > 1 => h[2 * i - 2].n < h[2 * i].n

HistoriesWellFormed ==
    /\ \A sid \in SessionIds :
         WellFormed(sessions[sid].history, MAX_CHAT_HISTORY_LENGTH)
    /\ (last.op = "chat" /\ ~last.failed) =>
         last.message_count * 2 = Len(sessions[last.sid].history)

C30_ConnectRetries ==
    /\ Len(outcomes) <= DB_RETRY_ATTEMPTS
    /\ \A i \in 1..(Len(outcomes) - 1) : outcomes[i] = "raises"
    /\ \A i \in 1..Len(sleeps) :
         sleeps[i] = IF i = 1 THEN DB_RETRY_DELAY ELSE 2 * sleeps[i - 1]
    /\ hpc = "connect" => Len(sleeps) = Len(outcomes)
    /\ hpc \in {"connected", "serving"} =>
         /\ cclient = "client"
         /\ outcomes[Len(outcomes)] = "ok"
         /\ Len(sleeps) = Len(outcomes) - 1
    /\ hpc \in {"failed", "down"} =>
         /\ cclient = "none"
         /\ outcomes = <<"raises", "raises", "raises">>
         /\ Len(sleeps) = DB_RETRY_ATTEMPTS - 1

\* The third attempt connected, after two back-offs.
C30_Witness ==
    /\ hpc = "connected"
    /\ outcomes = <<"raises", "raises", "ok">>
    /\ Len(sleeps) = 2

====
